---- MODULE Spec2Model ----
(***************************************************************************)
(* Hotel booking backend: the booking / payment confirmation flow          *)
(* (routes/hotels.ts, routes/bookings.ts) and the access-control layer     *)
(* (middleware/auth.ts, middleware/requireRole.ts, routes/auth.ts,         *)
(* routes/users.ts), modelled as state machines.                           *)
(*                                                                         *)
(* Every awaited database or payment-processor call of a handler is a      *)
(* suspension point, so a handler is one action per stretch of code        *)
(* between two awaits; handlers of different requests interleave at        *)
(* those points.                                                           *)
(***************************************************************************)
EXTENDS Integers, Sequences, FiniteSets, TLC

\* ------------------------------------------------------------------ bounds
\* request slots (concurrent confirm / delete requests of one behaviour)
MaxReqs == 2
\* largest numberOfNights a client sends
MaxNights == 1
\* largest totalCost a client sends
MaxCost == 2
\* instants of the clock: 0 .. MaxTime, TicksPerDay instants to a day
MaxTime == 3
TicksPerDay == 2

\* ------------------------------------------------------------- base sets
UserIds == {"u1", "u2"}
HotelIds == {"h1", "h2"}
ReqIds == 1 .. MaxReqs
\* the payment intent the processor issues an id for
IntentIds == {"pi_1"}
BookingIds == 1 .. MaxReqs
Times == 0 .. MaxTime

\* a body field the client left out / sent malformed
Absent == 0 - 1
Invalid == 0 - 2

\* Hotel.pricePerNight of the two catalogued hotels
pricePerNight(h) == IF h = "h1" THEN 1 ELSE 2

\* ---------------------------------------------------------------- state
VARIABLES
    paymentIntents,   \* the processor's intents: IntentIds -> intent
    bookings,         \* the Booking collection: a set of documents
    nextBookingId,    \* generated identity of the next Booking
    hotelStats,       \* Hotel.totalBookings / Hotel.totalRevenue
    userStats,        \* User.totalBookings / User.totalSpent
    reqs,             \* in-flight and answered requests: ReqIds -> request
    userDb,           \* the User collection: UserIds -> role ("" = no such user)
    cookieJar,        \* the client's cookies: name -> token
    now,              \* the clock jwt.verify reads
    last,             \* the last exchange: the request sent and its answer
    gate,             \* a request context passing through requireRole
    hotels,           \* the Hotel collection: HotelIds -> document
    bucket,           \* the storage bucket: the set of stored image files
    nextImage,        \* the next generated image file name
    puts,             \* in-flight and answered PUT /api/my-hotels requests
    cli,              \* the browser client: one request through the refresh interceptor
    rcli,             \* the browser client: one request through the retry interceptors
    reviews,          \* the Review collection: a set of documents
    ratingStats,      \* Hotel.averageRating / Hotel.reviewCount
    rreqs,            \* in-flight and answered create-review requests
    favorites,        \* the Favorite collection
    freqs,            \* favorite requests in flight
    search,           \* the last hotel search and its result
    accounts,         \* the User collection by email: a set of documents
    regs,             \* registration requests in flight
    app               \* the browser app: session state, location and what the route guard rendered

vars ==
    <<paymentIntents, bookings, nextBookingId, hotelStats, userStats, reqs,
      userDb, cookieJar, now, last, gate, hotels, bucket, nextImage, puts,
      cli, rcli,
      reviews, ratingStats, rreqs,
      favorites, freqs,
      search,
      accounts, regs,
      app>>

\* the state of each part of the backend
bookingVars == <<paymentIntents, bookings, nextBookingId, hotelStats, userStats, reqs>>
authVars == <<userDb, cookieJar, now, last>>
hotelVars == <<hotels, bucket, nextImage, puts>>
clientVars == <<cli>>
retryVars == <<rcli>>
reviewVars == <<reviews, ratingStats, rreqs>>
favVars == <<favorites, freqs>>
searchVars == <<search>>
regVars == <<accounts, regs>>
guardVars == <<app>>

\* what the handlers and the clients of each part leave alone
otherThanBooking == <<authVars, gate, hotelVars, clientVars, retryVars, reviewVars, favVars, searchVars, regVars, guardVars>>
otherThanAuth == <<bookingVars, gate, hotelVars, clientVars, retryVars, reviewVars, favVars, searchVars, regVars, guardVars>>
otherThanGate == <<bookingVars, authVars, hotelVars, clientVars, retryVars, reviewVars, favVars, searchVars, regVars, guardVars>>
otherThanHotel == <<bookingVars, authVars, gate, clientVars, retryVars, reviewVars, favVars, searchVars, regVars, guardVars>>
otherThanClient == <<bookingVars, authVars, gate, hotelVars, retryVars, reviewVars, favVars, searchVars, regVars, guardVars>>
otherThanRetry == <<bookingVars, authVars, gate, hotelVars, clientVars, reviewVars, favVars, searchVars, regVars, guardVars>>
otherThanSession == <<bookingVars, gate, hotelVars, retryVars, reviewVars, favVars, searchVars, regVars, guardVars>>
otherThanReview == <<authVars, gate, hotelVars, clientVars, retryVars, favVars, searchVars, regVars, guardVars>>
otherThanFav == <<bookingVars, authVars, gate, hotelVars, clientVars, retryVars, reviewVars, searchVars, regVars, guardVars>>
otherThanSearch == <<bookingVars, authVars, gate, hotelVars, clientVars, retryVars, reviewVars, favVars, regVars, guardVars>>
otherThanReg == <<bookingVars, authVars, gate, hotelVars, clientVars, retryVars, reviewVars, favVars, searchVars, guardVars>>
otherThanGuard == <<bookingVars, authVars, gate, hotelVars, clientVars, retryVars, reviewVars, favVars, searchVars, regVars>>

NoIntent == [hotelId |-> "", userId |-> "", amount |-> 0, status |-> "none"]

NoBooking ==
    [id |-> 0, userId |-> "", hotelId |-> "", totalCost |-> 0, checkIn |-> 0,
     checkOut |-> 0, status |-> "", paymentStatus |-> ""]

\* identity and status fields a request body may carry besides the validated ones
NoExtra == [userId |-> "", hotelId |-> "", status |-> "", paymentStatus |-> ""]
BodyExtra(body) ==
    [userId |-> IF "userId" \in DOMAIN body THEN body.userId ELSE "",
     hotelId |-> IF "hotelId" \in DOMAIN body THEN body.hotelId ELSE "",
     status |-> IF "status" \in DOMAIN body THEN body.status ELSE "",
     paymentStatus |-> IF "paymentStatus" \in DOMAIN body THEN body.paymentStatus ELSE ""]

IdleReq ==
    [kind |-> "none", pc |-> "idle", userId |-> "", hotelId |-> "",
     paymentIntentId |-> "", totalCost |-> 0, checkIn |-> 0, checkOut |-> 0,
     numberOfNights |-> Absent, bookingId |-> 0, booking |-> NoBooking,
     extra |-> NoExtra, code |-> 0, message |-> "", detail |-> ""]

\* res.status(code).json({message}) ends the handler; the request's
\* locals are gone with it
Respond(q, code, message, detail) ==
    [IdleReq EXCEPT !.kind = q.kind, !.pc = "done", !.code = code,
                    !.message = message, !.detail = detail]

\* res.status(400).json({errors: errors.array()}): the errors echo the
\* offending body
RespondInvalid(q) == [q EXCEPT !.pc = "done", !.code = 400, !.message = "validation"]

\* ----------------------------------------------------- faulty variants
\* the metadata check forgets the user
MetadataMismatch_HotelOnly(pi, q) == pi.hotelId # q.hotelId

\* $set where $inc was meant: a concurrent update is lost
IncHotel_Overwrite(stats, h, d) ==
    [stats EXCEPT ![h] = [totalBookings |-> d.totalBookings,
                          totalRevenue |-> d.totalRevenue]]

\* only a cancelled intent is turned away
NotSucceeded_CanceledOnly(pi) == pi.status = "canceled"

\* the deletion leaves the user's spending in place
UserDec_KeepsSpent(b) == [totalBookings |-> 0 - 1, totalSpent |-> 0]

\* the deletion leaves the revenue in place
HotelDec_KeepsRevenue(b) == [totalBookings |-> 0 - 1, totalRevenue |-> 0]

\* ------------------------------------------------------ hotels.ts helpers
MS_PER_DAY == TicksPerDay

toMidnightUTC(d) == (d \div MS_PER_DAY) * MS_PER_DAY

diffNights(start, end) == (toMidnightUTC(end) - toMidnightUTC(start)) \div MS_PER_DAY

\* the express-validator chain of POST /:hotelId/bookings; TRUE when
\* validationResult(req) is empty
NightsCheckSkipped(n) == n = Absent \/ n = 0

ValidateConfirm(body) ==
    /\ body.paymentIntentId # ""
    /\ body.totalCost # Invalid
    /\ body.checkIn # Invalid
    /\ body.checkOut # Invalid
    /\ diffNights(body.checkIn, body.checkOut) >= 1
    /\ \/ NightsCheckSkipped(body.numberOfNights)
       \/ body.numberOfNights = diffNights(body.checkIn, body.checkOut)

\* paymentIntent.metadata against the path parameter and req.userId
MetadataMismatch(pi, q) == pi.hotelId # q.hotelId \/ pi.userId # q.userId

NotSucceeded(pi) == pi.status # "succeeded"

\* newBooking: the request body with the identity and status fields overridden
NewBooking_BodyLast(q) ==
    [id |-> 0,
     userId |-> IF q.extra.userId # "" THEN q.extra.userId ELSE q.userId,
     hotelId |-> IF q.extra.hotelId # "" THEN q.extra.hotelId ELSE q.hotelId,
     totalCost |-> q.totalCost, checkIn |-> q.checkIn, checkOut |-> q.checkOut,
     status |-> IF q.extra.status # "" THEN q.extra.status ELSE "confirmed",
     paymentStatus |-> IF q.extra.paymentStatus # "" THEN q.extra.paymentStatus ELSE "paid"]
NewBooking(q) ==
    [id |-> 0, userId |-> q.userId, hotelId |-> q.hotelId,
     totalCost |-> q.totalCost, checkIn |-> q.checkIn, checkOut |-> q.checkOut,
     status |-> "confirmed", paymentStatus |-> "paid"]

\* the $inc documents of the confirmation and of the deletion
HotelInc(b) == [totalBookings |-> 1, totalRevenue |-> b.totalCost]
UserInc(b) == [totalBookings |-> 1, totalSpent |-> b.totalCost]
HotelDec(b) == [totalBookings |-> 0 - 1, totalRevenue |-> 0 - b.totalCost]
UserDec(b) == [totalBookings |-> 0 - 1, totalSpent |-> 0 - b.totalCost]

\* findByIdAndUpdate(id, {$inc: d}): the store's atomic increment
IncHotel(stats, h, d) ==
    [stats EXCEPT ![h] = [totalBookings |-> @.totalBookings + d.totalBookings,
                          totalRevenue |-> @.totalRevenue + d.totalRevenue]]

IncUser(stats, u, d) ==
    [stats EXCEPT ![u] = [totalBookings |-> @.totalBookings + d.totalBookings,
                          totalSpent |-> @.totalSpent + d.totalSpent]]

\* --------------------------------------------------------------- Init
InitBooking ==
    /\ paymentIntents = [i \in IntentIds |-> NoIntent]
    /\ bookings = {}
    /\ nextBookingId = 1
    /\ hotelStats = [h \in HotelIds |-> [totalBookings |-> 0, totalRevenue |-> 0]]
    /\ userStats = [u \in UserIds |-> [totalBookings |-> 0, totalSpent |-> 0]]
    /\ reqs = [r \in ReqIds |-> IdleReq]

\* ------------------------------------------------ payment-intent handler
\* POST /:hotelId/bookings/payment-intent, for an authenticated user u
CreatePaymentIntent(u, h, n) ==
    /\ n >= 1
    /\ h \in HotelIds
    /\ \E i \in IntentIds :
        /\ paymentIntents[i] = NoIntent
        /\ paymentIntents' = [paymentIntents EXCEPT ![i] =
              [hotelId |-> h, userId |-> u,
               amount |-> pricePerNight(h) * n * 100,
               status |-> "requires_payment_method"]]
    /\ UNCHANGED <<bookings, nextBookingId, hotelStats, userStats, reqs>>
    /\ UNCHANGED otherThanBooking

\* the processor settles an intent: the card payment succeeds or is cancelled
ProcessorSettles(i, s) ==
    /\ paymentIntents[i].status = "requires_payment_method"
    /\ paymentIntents' = [paymentIntents EXCEPT ![i].status = s]
    /\ UNCHANGED <<bookings, nextBookingId, hotelStats, userStats, reqs>>
    /\ UNCHANGED otherThanBooking

\* -------------------------------------------------- confirm-booking handler
\* POST /:hotelId/bookings: validators, then stripe.paymentIntents.retrieve
ConfirmReceive(r, u, h, body) ==
    /\ reqs[r].pc = "idle"
    /\ \A s \in ReqIds : s < r => reqs[s].pc # "idle"
    /\ LET q == [IdleReq EXCEPT !.kind = "confirm", !.userId = u, !.hotelId = h,
                    !.paymentIntentId = body.paymentIntentId,
                    !.totalCost = body.totalCost, !.checkIn = body.checkIn,
                    !.checkOut = body.checkOut,
                    !.numberOfNights = body.numberOfNights,
                    !.extra = BodyExtra(body)]
       IN reqs' = [reqs EXCEPT ![r] =
              IF ValidateConfirm(body)
              THEN [q EXCEPT !.pc = "retrieve"]
              ELSE RespondInvalid(q)]
    /\ UNCHANGED <<paymentIntents, bookings, nextBookingId, hotelStats, userStats>>
    /\ UNCHANGED otherThanBooking

\* the retrieve resolves (or throws for an id the processor does not know);
\* metadata and status checks; newBooking is built
ConfirmRetrieved(r) ==
    /\ reqs[r].kind = "confirm" /\ reqs[r].pc = "retrieve"
    /\ LET q == reqs[r]
           pi == IF q.paymentIntentId \in IntentIds
                 THEN paymentIntents[q.paymentIntentId] ELSE NoIntent
       IN reqs' = [reqs EXCEPT ![r] =
              IF pi = NoIntent THEN Respond(q, 500, "something went wrong", "")
              ELSE IF MetadataMismatch(pi, q)
                   THEN Respond(q, 400, "payment intent mismatch", "")
              ELSE IF NotSucceeded(pi)
                   THEN Respond(q, 400, "payment intent not succeeded", pi.status)
              ELSE [q EXCEPT !.pc = "save", !.booking = NewBooking(q)]]
    /\ UNCHANGED <<paymentIntents, bookings, nextBookingId, hotelStats, userStats>>
    /\ UNCHANGED otherThanBooking

\* await booking.save()
ConfirmSave(r) ==
    /\ reqs[r].kind = "confirm" /\ reqs[r].pc = "save"
    /\ LET b == [reqs[r].booking EXCEPT !.id = nextBookingId]
       IN /\ bookings' = bookings \cup {b}
          /\ reqs' = [reqs EXCEPT ![r].pc = "incHotel", ![r].booking = b]
    /\ nextBookingId' = nextBookingId + 1
    /\ UNCHANGED <<paymentIntents, hotelStats, userStats>>
    /\ UNCHANGED otherThanBooking

\* await Hotel.findByIdAndUpdate(hotelId, {$inc})
ConfirmIncHotel(r) ==
    /\ reqs[r].kind = "confirm" /\ reqs[r].pc = "incHotel"
    /\ hotelStats' = IncHotel(hotelStats, reqs[r].hotelId, HotelInc(reqs[r].booking))
    /\ reqs' = [reqs EXCEPT ![r].pc = "incUser"]
    /\ UNCHANGED <<paymentIntents, bookings, nextBookingId, userStats>>
    /\ UNCHANGED otherThanBooking

\* await User.findByIdAndUpdate(userId, {$inc}); res.status(200).send()
ConfirmIncUser(r) ==
    /\ reqs[r].kind = "confirm" /\ reqs[r].pc = "incUser"
    /\ userStats' = IncUser(userStats, reqs[r].userId, UserInc(reqs[r].booking))
    /\ reqs' = [reqs EXCEPT ![r] = Respond(@, 200, "", "")]
    /\ UNCHANGED <<paymentIntents, bookings, nextBookingId, hotelStats>>
    /\ UNCHANGED otherThanBooking

\* an awaited store call rejects: the catch block answers 500
ConfirmThrows(r) ==
    /\ reqs[r].kind = "confirm" /\ reqs[r].pc \in {"save", "incHotel", "incUser"}
    /\ reqs' = [reqs EXCEPT ![r] = Respond(@, 500, "something went wrong", "")]
    /\ UNCHANGED <<paymentIntents, bookings, nextBookingId, hotelStats, userStats>>
    /\ UNCHANGED otherThanBooking

\* ---------------------------------------------------- delete handler
\* DELETE /api/bookings/:id by an admin: Booking.findByIdAndDelete
DeleteReceive(r, id) ==
    /\ reqs[r].pc = "idle"
    /\ \A s \in ReqIds : s < r => reqs[s].pc # "idle"
    /\ LET q == [IdleReq EXCEPT !.kind = "delete", !.bookingId = id]
           found == {b \in bookings : b.id = id}
       IN IF found = {}
          THEN /\ reqs' = [reqs EXCEPT ![r] = Respond(q, 404, "Booking not found", "")]
               /\ bookings' = bookings
          ELSE \E b \in found :
               /\ bookings' = bookings \ {b}
               /\ reqs' = [reqs EXCEPT ![r] = [q EXCEPT !.pc = "decHotel", !.booking = b]]
    /\ UNCHANGED <<paymentIntents, nextBookingId, hotelStats, userStats>>
    /\ UNCHANGED otherThanBooking

DeleteDecHotel(r) ==
    /\ reqs[r].kind = "delete" /\ reqs[r].pc = "decHotel"
    /\ hotelStats' = IncHotel(hotelStats, reqs[r].booking.hotelId, HotelDec(reqs[r].booking))
    /\ reqs' = [reqs EXCEPT ![r].pc = "decUser"]
    /\ UNCHANGED <<paymentIntents, bookings, nextBookingId, userStats>>
    /\ UNCHANGED otherThanBooking

DeleteDecUser(r) ==
    /\ reqs[r].kind = "delete" /\ reqs[r].pc = "decUser"
    /\ userStats' = IncUser(userStats, reqs[r].booking.userId, UserDec(reqs[r].booking))
    /\ reqs' = [reqs EXCEPT ![r] = Respond(@, 200, "Booking deleted successfully", "")]
    /\ UNCHANGED <<paymentIntents, bookings, nextBookingId, hotelStats>>
    /\ UNCHANGED otherThanBooking

DeleteThrows(r) ==
    /\ reqs[r].kind = "delete" /\ reqs[r].pc \in {"decHotel", "decUser"}
    /\ reqs' = [reqs EXCEPT ![r] = Respond(@, 500, "Unable to delete booking", "")]
    /\ UNCHANGED <<paymentIntents, bookings, nextBookingId, hotelStats, userStats>>
    /\ UNCHANGED otherThanBooking

\* ================================================================ access
\* ------------------------------------------------------------ tokens
Roles == {"user", "hotel_owner", "admin"}
NoRole == ""

\* expiresIn of the access token (15m), of the session token (1d) and of
\* the refresh token (7d), in clock ticks
AccessTTL == 1
SessionTTL == 2
RefreshTTL == 3

\* the clock runs 0 .. MaxClock
MaxClock == 2

NoToken == [secret |-> "none", userId |-> "", userRole |-> NoRole, exp |-> 0]
\* a string that is no JWT, and a JWT signed with a key the server does not hold
MalformedToken == [secret |-> "malformed", userId |-> "", userRole |-> NoRole, exp |-> 0]
ForgedToken ==
    [secret |-> "attacker", userId |-> "u1", userRole |-> "admin", exp |-> MaxClock + RefreshTTL]

\* jwt.sign(payload, secret, {expiresIn})
JwtSign(userId, userRole, secret, ttl) ==
    [secret |-> secret, userId |-> userId, userRole |-> userRole, exp |-> now + ttl]

\* faulty variant: the expiry is not looked at
JwtVerify_IgnoresExpiry(token, secret) == token.secret = secret

\* jwt.verify(token, secret) returns the payload; FALSE when it throws
JwtVerify(token, secret) == token.secret = secret /\ now < token.exp

\* createTokens(userId, userRole) of routes/auth.ts and routes/users.ts
createTokens(userId, userRole) ==
    [accessToken |-> JwtSign(userId, userRole, "JWT_SECRET_KEY", AccessTTL),
     refreshToken |-> JwtSign(userId, NoRole, "REFRESH_SECRET_KEY", RefreshTTL)]

\* ------------------------------------------------------- requests
NoCookies == [auth_token |-> NoToken, refresh_token |-> NoToken, session_id |-> NoToken]
NoHeader == [scheme |-> "none", token |-> NoToken]

NoExchange ==
    [op |-> "none", userId |-> "", header |-> NoHeader, cookies |-> NoCookies,
     code |-> 0, message |-> "", ran |-> FALSE, reqUserId |-> "",
     reqUserRole |-> NoRole, body |-> "", cleared |-> {}, at |-> 0]

\* ---------------------------------------------------- middleware/auth.ts
\* the token verifyToken takes from the request: the Bearer header first,
\* then the session_id cookie
ExtractToken(header, cookies) ==
    IF header.scheme = "Bearer" THEN header.token
    ELSE IF cookies.session_id # NoToken THEN cookies.session_id
    ELSE NoToken

\* the cookies verifyToken clears when it answers 401
ClearedOnFailure == {}

\* verifyToken: the request context it attaches, or the 401 it answers
verifyToken(header, cookies) ==
    LET token == ExtractToken(header, cookies)
    IN IF token # NoToken /\ JwtVerify(token, "JWT_SECRET_KEY")
       THEN [ok |-> TRUE, code |-> 0, message |-> "", userId |-> token.userId,
             userRole |-> token.userRole, cleared |-> {}]
       ELSE [ok |-> FALSE, code |-> 401, message |-> "Unauthorized", userId |-> "",
             userRole |-> NoRole, cleared |-> ClearedOnFailure]

\* ----------------------------------------------- middleware/requireRole.ts
\* faulty variant: an admin passes every gate
requireRole_AdminPasses(userRole, allowedRoles) ==
    IF userRole = NoRole THEN 401
    ELSE IF userRole \notin allowedRoles /\ userRole # "admin" THEN 403
    ELSE 0

\* requireRole(...allowedRoles): 0 stands for next()
requireRole(userRole, allowedRoles) ==
    IF userRole = NoRole THEN 401
    ELSE IF userRole \notin allowedRoles THEN 403
    ELSE 0

\* the allow-lists the routes pass to requireRole
AllowedRoles(route) ==
    CASE route = "POST /api/my-hotels" -> {"hotel_owner"}
      [] route = "PUT /api/my-hotels/:hotelId" -> {"hotel_owner"}
      [] route = "DELETE /api/bookings/:id" -> {"admin"}
      [] route = "GET /api/admin/dashboard" -> {"admin"}

\* ------------------------------------------------------------- Init
InitAuth ==
    /\ userDb = [u \in UserIds |-> NoRole]
    /\ cookieJar = NoCookies
    /\ now = 0
    /\ last = NoExchange

NoGate ==
    [pc |-> "none", userId |-> "", userRole |-> NoRole, allowedRoles |-> {},
     code |-> 0, message |-> "", ran |-> FALSE]

\* ------------------------------------------------------- my-hotels.ts
\* two concurrent requests to PUT /api/my-hotels/:hotelId
PutIds == {1, 2}

HotelNames == {"name1", "name2"}

NoHotel == [userId |-> "", name |-> "", imageUrls |-> <<>>]

IdlePut ==
    [pc |-> "idle", userId |-> "", userRole |-> NoRole, hotelId |-> "", name |-> "",
     keptImageUrls |-> <<>>, files |-> 0, newImageUrls |-> <<>>,
     removedImageUrls |-> <<>>, code |-> 0, message |-> ""]

\* the catalogue: each hotel created by its owner with one uploaded image
InitHotel ==
    /\ hotels = [h \in HotelIds |->
                    IF h = "h1" THEN [userId |-> "u1", name |-> "name1", imageUrls |-> <<1>>]
                    ELSE [userId |-> "u2", name |-> "name1", imageUrls |-> <<2>>]]
    /\ bucket = {1, 2}
    /\ nextImage = 3
    /\ puts = [r \in PutIds |-> IdlePut]

\* ------------------------------------------------- lib/api-client.ts
\* the client before it makes a request
NoClient ==
    [variant |-> "none", url |-> "", pc |-> "idle", retry |-> FALSE, sends |-> 0,
     refreshCalls |-> 0, status |-> 0, history |-> <<>>]

\* a request config before the request interceptor has run
NoRetryClient ==
    [pc |-> "new", retryCount |-> 0, resends |-> 0, status |-> 0,
     history |-> <<>>, delays |-> <<>>]

InitClients == cli = NoClient /\ rcli = NoRetryClient

\* ---------------------------------------------------- routes/reviews.ts
\* two concurrent requests to POST /api/reviews/:hotelId
RevIds == {1, 2}
Ratings == {1, 5}

NoReview == [id |-> 0, userId |-> "", hotelId |-> "", bookingId |-> 0, rating |-> 0]

IdleRev ==
    [pc |-> "idle", userId |-> "", hotelId |-> "", rating |-> 0, bookingId |-> 0,
     stats |-> [sum |-> 0, count |-> 0], code |-> 0, message |-> ""]

\* no reviews yet: averageRating 0 (as the fraction sum / count), reviewCount 0
InitReview ==
    /\ reviews = {}
    /\ ratingStats = [h \in HotelIds |-> [sum |-> 0, count |-> 0]]
    /\ rreqs = [r \in RevIds |-> IdleRev]

\* concurrent invocations of the favorites handlers
FavIds == {1, 2, 3}
FavKinds == {"add", "remove"}

IdleFav == [pc |-> "idle", kind |-> "", userId |-> "", hotelId |-> "", err |-> "", code |-> 0, message |-> ""]

InitFav ==
    /\ favorites = {}
    /\ freqs = [r \in FavIds |-> IdleFav]

\* ---- POST /api/users/register, stepwise
RegIds == {1, 2, 3}
Emails == {"a@x.io", "b@x.io"}
\* the register route of routes/users.ts and the other register route
RegVariants == {"users", "session"}

IdleReg ==
    [pc |-> "idle", variant |-> "", email |-> "", code |-> 0, message |-> "", cookies |-> {}]

InitReg ==
    /\ accounts = {}
    /\ regs = [r \in RegIds |-> IdleReg]

\* ---- GET /api/hotels/search: strings are sequences of characters
MaxDest == 2
DestChars == {"a", "A", "b", ".", " "}
Strings(chars, n) == UNION {[1 .. k -> chars] : k \in 0 .. n}

\* a req.query field: left out, one string, or a repeated key (an array)
NoParam == [kind |-> "absent", items |-> <<>>]
Str(s) == [kind |-> "string", items |-> <<s>>]
Arr(a) == [kind |-> "array", items |-> a]

\* the hotels the store holds for the search
Catalog ==
    {[id |-> 1, city |-> <<"a", "b">>, country |-> <<"A">>,
      facilities |-> {<<"f", "1">>, <<"f", "2">>}, type |-> {<<"t", "1">>},
      starRating |-> 1, pricePerNight |-> 1, adultCount |-> 2, childCount |-> 1],
     [id |-> 2, city |-> <<"b", "a">>, country |-> <<"b">>,
      facilities |-> {<<"f", "1">>}, type |-> {<<"t", "2">>},
      starRating |-> 2, pricePerNight |-> 2, adultCount |-> 1, childCount |-> 0],
     [id |-> 3, city |-> <<"A", "a">>, country |-> <<"b", " ", "a">>,
      facilities |-> {}, type |-> {<<"t", "1">>, <<"t", "2">>},
      starRating |-> 3, pricePerNight |-> 3, adultCount |-> 2, childCount |-> 2]}

\* the query strings a client sends
DestChoices == {NoParam} \cup {Str(d) : d \in Strings(DestChars, MaxDest)}
FacilityChoices == {NoParam, Str(<<>>), Str(<<"f", "1">>), Arr(<< <<"f", "1">>, <<"f", "2">> >>)}
TypeChoices == {NoParam, Str(<<"t", "1">>), Arr(<< <<"t", "1">>, <<"t", "3">> >>)}
StarChoices == {NoParam, Str(<<"1">>), Arr(<< <<"2">>, <<"3">> >>)}
PriceChoices == {NoParam, Str(<<"0">>), Str(<<"2">>)}
CountChoices == {NoParam, Str(<<"1">>), Str(<<"2">>)}
QueryParams ==
    [destination : DestChoices, facilities : FacilityChoices, types : TypeChoices,
     stars : StarChoices, maxPrice : PriceChoices,
     adultCount : CountChoices, childCount : CountChoices,
     sortOption : {NoParam}, page : {NoParam}]

\* a filter of the constructed query: left out of the object, or its operand
NoFilter == [set |-> FALSE, arg |-> <<>>]
Filter(arg) == [set |-> TRUE, arg |-> arg]
EmptyQuery ==
    [or |-> NoFilter, facilities |-> NoFilter, type |-> NoFilter, starRating |-> NoFilter,
     pricePerNight |-> NoFilter, adultCount |-> NoFilter, childCount |-> NoFilter]

\* no search made yet
NoPagination == [total |-> 0, page |-> 0, pages |-> 0]
NoSearch ==
    [pc |-> "idle", catalog |-> Catalog,
     params |-> [destination |-> NoParam, facilities |-> NoParam,
                 types |-> NoParam, stars |-> NoParam, maxPrice |-> NoParam,
                 adultCount |-> NoParam, childCount |-> NoParam,
                 sortOption |-> NoParam, page |-> NoParam],
     query |-> EmptyQuery, sortOptions |-> "", pageNumber |-> 0, skip |-> 0,
     matched |-> {}, data |-> <<>>, pagination |-> NoPagination,
     code |-> 0, message |-> ""]

\* ---- the browser app (AppContext.tsx, ProtectedRoute, App.tsx)
\* the pages of App.tsx that matter to the guard
Paths ==
    {"/", "/search", "/sign-in", "/register", "/hotel/:hotelId/booking", "/my-bookings",
     "/add-hotel", "/edit-hotel/:hotelId", "/my-hotels", "/admin"}

\* the app as the page loads: validate-token in flight, no user
NoApp ==
    [role |-> "user", validate |-> "loading", me |-> "idle", user |-> NoRole,
     path |-> "/", shown |-> "public"]

\* the stores and clients a specification does not start differently
InitStores == InitReview /\ InitFav /\ InitReg
InitRest == InitStores /\ search = NoSearch /\ app = NoApp

Init == InitBooking /\ InitAuth /\ gate = NoGate /\ InitHotel /\ InitClients /\ InitRest

\* ------------------------------------------------- routes/users.ts
\* POST /api/users/register: creates the user from the body and sets the
\* auth_token and refresh_token cookies
Register(u, role) ==
    /\ IF userDb[u] # NoRole
       THEN /\ last' = [NoExchange EXCEPT !.op = "register", !.userId = u, !.code = 400,
                           !.message = "User already exists", !.at = now]
            /\ UNCHANGED <<userDb, cookieJar>>
       ELSE LET t == createTokens(u, role)
            IN /\ userDb' = [userDb EXCEPT ![u] = role]
               /\ cookieJar' = [cookieJar EXCEPT !.auth_token = t.accessToken,
                                                 !.refresh_token = t.refreshToken]
               /\ last' = [NoExchange EXCEPT !.op = "register", !.userId = u,
                              !.code = 200, !.message = "User registered OK", !.at = now]
    /\ UNCHANGED now
    /\ UNCHANGED otherThanAuth

\* the register route that signs one session token and sets it as the
\* session_id cookie
RegisterSession(u, role) ==
    /\ IF userDb[u] # NoRole
       THEN /\ last' = [NoExchange EXCEPT !.op = "register", !.userId = u, !.code = 409,
                           !.message = "Email already in use", !.at = now]
            /\ UNCHANGED <<userDb, cookieJar>>
       ELSE /\ userDb' = [userDb EXCEPT ![u] = role]
            /\ cookieJar' = [cookieJar EXCEPT !.session_id =
                                JwtSign(u, role, "JWT_SECRET_KEY", SessionTTL)]
            /\ last' = [NoExchange EXCEPT !.op = "register", !.userId = u,
                           !.code = 200, !.message = "User registered OK", !.at = now]
    /\ UNCHANGED now
    /\ UNCHANGED otherThanAuth

\* ------------------------------------------------- routes/auth.ts
\* POST /api/auth/login
Login(u, passwordMatches) ==
    /\ IF userDb[u] = NoRole \/ ~passwordMatches
       THEN /\ last' = [NoExchange EXCEPT !.op = "login", !.userId = u, !.code = 401,
                           !.message = "Invalid email or password", !.at = now]
            /\ UNCHANGED cookieJar
       ELSE LET t == createTokens(u, userDb[u])
            IN /\ cookieJar' = [cookieJar EXCEPT !.auth_token = t.accessToken,
                                                 !.refresh_token = t.refreshToken]
               /\ last' = [NoExchange EXCEPT !.op = "login", !.userId = u, !.code = 200,
                              !.message = "Login successful", !.at = now]
    /\ UNCHANGED <<userDb, now>>
    /\ UNCHANGED otherThanAuth

\* GET /api/auth/validate-token: verifyToken, then the handler answers
\* 200 {userId: req.userId}
ValidateToken(header, cookies) ==
    /\ LET ctx == verifyToken(header, cookies)
           sent == [NoExchange EXCEPT !.op = "validate-token", !.header = header,
                       !.cookies = cookies, !.at = now]
       IN last' = IF ctx.ok
                  THEN [sent EXCEPT !.code = 200, !.ran = TRUE, !.reqUserId = ctx.userId,
                                    !.reqUserRole = ctx.userRole, !.body = ctx.userId]
                  ELSE [sent EXCEPT !.code = ctx.code, !.message = ctx.message,
                                    !.cleared = ctx.cleared]
    /\ cookieJar' = [n \in DOMAIN cookieJar |->
                        IF n \in verifyToken(header, cookies).cleared
                        THEN NoToken ELSE cookieJar[n]]
    /\ UNCHANGED <<userDb, now>>
    /\ UNCHANGED otherThanAuth

\* time passes
Tick ==
    /\ now < MaxClock
    /\ now' = now + 1
    /\ UNCHANGED <<userDb, cookieJar, last>>
    /\ UNCHANGED otherThanAuth

\* what a client can put into a request: the cookies it holds, none, or
\* a session cookie it made up; no Authorization header, a Bearer token it
\* holds or made up, or another scheme
CookieChoices ==
    {cookieJar, NoCookies,
     [NoCookies EXCEPT !.session_id = MalformedToken],
     [NoCookies EXCEPT !.auth_token = MalformedToken]}

HeaderChoices ==
    {NoHeader, [scheme |-> "Basic", token |-> NoToken]}
    \cup {[scheme |-> "Bearer", token |-> t] :
            t \in {cookieJar.auth_token, cookieJar.session_id, cookieJar.refresh_token,
                   MalformedToken, ForgedToken, NoToken}}

NextAuth ==
    \/ \E u \in UserIds, role \in Roles : Register(u, role)
    \/ \E u \in UserIds, role \in Roles : RegisterSession(u, role)
    \/ \E u \in UserIds, ok \in BOOLEAN : Login(u, ok)
    \/ \E h \in HeaderChoices, c \in CookieChoices : ValidateToken(h, c)
    \/ Tick

SpecAuth == Init /\ [][NextAuth]_vars

\* ------------------------------------------------------- the role gate
\* a request context as verifyToken leaves it, at a route gated by
\* requireRole(allowedRoles)
InitGate ==
    /\ InitBooking /\ InitAuth /\ InitHotel /\ InitClients /\ InitRest
    /\ gate \in [pc : {"gate"}, userId : UserIds, userRole : Roles \cup {NoRole},
                 allowedRoles : SUBSET Roles \ {{}}, code : {0}, message : {""},
                 ran : {FALSE}]

RoleGate ==
    /\ gate.pc = "gate"
    /\ LET c == requireRole(gate.userRole, gate.allowedRoles)
       IN gate' = IF c = 0 THEN [gate EXCEPT !.pc = "handler"]
                  ELSE [gate EXCEPT !.pc = "done", !.code = c,
                           !.message = IF c = 401 THEN "Unauthorized" ELSE "Forbidden"]
    /\ UNCHANGED otherThanGate

\* next(): the route handler runs
RouteHandler ==
    /\ gate.pc = "handler"
    /\ gate' = [gate EXCEPT !.pc = "done", !.ran = TRUE]
    /\ UNCHANGED otherThanGate

NextGate == RoleGate \/ RouteHandler

SpecRole == InitGate /\ [][NextGate]_vars

\* ------------------------------------------- PUT /api/my-hotels/:hotelId
\* the elements of a list, and a list without the elements of another
Range(seq) == {seq[i] : i \in DOMAIN seq}
Without(seq, kept) == SelectSeq(seq, LAMBDA url : url \notin Range(kept))

\* faulty variant: the hotel is looked up by its id alone
FindOwnedHotel_AnyOwner(h, u) == hotels[h]

\* Hotel.findOne({_id: hotelId, userId})
FindOwnedHotel(h, u) == IF hotels[h].userId = u THEN hotels[h] ELSE NoHotel

\* what the form can name as images to keep: none, the hotel's current
\* list, or a stored image of any hotel
KeptChoices(h) == {<<>>, hotels[h].imageUrls} \cup {<<i>> : i \in {1, 2}}

\* verifyToken has attached userId / userRole; requireRole("hotel_owner")
\* lets the request through to the handler, which issues findOne
PutReceive(r, u, role, h, name, kept, files) ==
    /\ puts[r].pc = "idle"
    /\ \A q \in PutIds : q < r => puts[q].pc # "idle"
    /\ LET c == requireRole(role, AllowedRoles("PUT /api/my-hotels/:hotelId"))
       IN puts' = [puts EXCEPT ![r] =
            IF c # 0
            THEN [IdlePut EXCEPT !.pc = "done", !.code = c,
                     !.message = IF c = 401 THEN "Unauthorized" ELSE "Forbidden"]
            ELSE [IdlePut EXCEPT !.pc = "findOne", !.userId = u, !.userRole = role,
                     !.hotelId = h, !.name = name, !.keptImageUrls = kept,
                     !.files = files]]
    /\ UNCHANGED <<hotels, bucket, nextImage>>
    /\ UNCHANGED otherThanHotel

\* findOne has answered: 404 for a hotel that is not this user's
PutFound(r) ==
    /\ puts[r].pc = "findOne"
    /\ LET q == puts[r]
           existingHotel == FindOwnedHotel(q.hotelId, q.userId)
       IN puts' = [puts EXCEPT ![r] =
            IF existingHotel = NoHotel
            THEN [IdlePut EXCEPT !.pc = "done", !.code = 404, !.message = "Hotel not found"]
            ELSE [q EXCEPT !.pc = IF q.files > 0 THEN "upload" ELSE "update",
                           !.removedImageUrls =
                                Without(existingHotel.imageUrls, q.keptImageUrls)]]
    /\ UNCHANGED <<hotels, bucket, nextImage>>
    /\ UNCHANGED otherThanHotel

\* uploadImages(files): each file saved to the bucket under a fresh name
PutUploaded(r) ==
    /\ puts[r].pc = "upload"
    /\ bucket' = bucket \cup {nextImage}
    /\ nextImage' = nextImage + 1
    /\ puts' = [puts EXCEPT ![r].pc = "update", ![r].newImageUrls = <<nextImage>>]
    /\ UNCHANGED hotels
    /\ UNCHANGED otherThanHotel

\* Hotel.findByIdAndUpdate(hotelId, updateData)
PutUpdated(r) ==
    /\ puts[r].pc = "update"
    /\ LET q == puts[r]
       IN hotels' = [hotels EXCEPT ![q.hotelId].name = q.name,
                        ![q.hotelId].imageUrls = q.keptImageUrls \o q.newImageUrls]
    /\ puts' = [puts EXCEPT ![r].pc = "delete"]
    /\ UNCHANGED <<bucket, nextImage>>
    /\ UNCHANGED otherThanHotel

\* bucket.file(path).delete({ignoreNotFound: true}) for every removed
\* image, then 200
PutDeleted(r) ==
    /\ puts[r].pc = "delete"
    /\ bucket' = bucket \ Range(puts[r].removedImageUrls)
    /\ puts' = [puts EXCEPT ![r] =
                    [IdlePut EXCEPT !.pc = "done", !.code = 200,
                                    !.userId = puts[r].userId, !.hotelId = puts[r].hotelId]]
    /\ UNCHANGED <<hotels, nextImage>>
    /\ UNCHANGED otherThanHotel

\* an awaited call rejects: catch answers 500
PutThrows(r) ==
    /\ puts[r].pc \in {"findOne", "upload", "update"}
    /\ puts' = [puts EXCEPT ![r] =
                    [IdlePut EXCEPT !.pc = "done", !.code = 500,
                                    !.message = "Something went wrong"]]
    /\ UNCHANGED <<hotels, bucket, nextImage>>
    /\ UNCHANGED otherThanHotel

NextHotel ==
    \/ \E r \in PutIds, u \in UserIds, role \in Roles \cup {NoRole}, h \in HotelIds :
          \E name \in HotelNames, kept \in KeptChoices(h), files \in {0, 1} :
            PutReceive(r, u, role, h, name, kept, files)
    \/ \E r \in PutIds : PutFound(r)
    \/ \E r \in PutIds : PutUploaded(r)
    \/ \E r \in PutIds : PutUpdated(r)
    \/ \E r \in PutIds : PutDeleted(r)
    \/ \E r \in PutIds : PutThrows(r)

SpecHotel == Init /\ [][NextHotel]_vars

\* --------------------------------- the refresh interceptor (api-client.ts)
\* sends of one request the model follows
MaxSends == 4

\* a response's status; 0 stands for no response (a network error)
Statuses == {200, 401, 403, 429, 500, 0}

Urls ==
    {"/api/auth/validate-token", "/api/auth/login", "/api/users/register",
     "/api/auth/refresh-token"}

\* the two copies of the interceptor: lib/api-client.ts and its earlier form
Variants == {"api-client", "earlier"}

isAuthRoute(url) ==
    url \in {"/api/auth/login", "/api/users/register", "/api/auth/refresh-token"}

\* faulty variant: the _retry flag is not looked at
ShouldRefresh_IgnoresRetry(status, retry) == status = 401

\* status === 401 && !originalRequest._retry
ShouldRefresh(status, retry) == status = 401 /\ ~retry

\* the response interceptor on the response to the request (or its replay)
AfterResponse(c, status) ==
    LET seen == [c EXCEPT !.history = Append(@, status)]
    IN IF status = 200 THEN [seen EXCEPT !.pc = "resolved", !.status = 200]
       ELSE IF c.variant = "api-client" /\ isAuthRoute(c.url)
       THEN [seen EXCEPT !.pc = "rejected", !.status = status]
       ELSE IF ShouldRefresh(status, c.retry)
       THEN [seen EXCEPT !.retry = TRUE, !.pc = "refreshing",
                         !.refreshCalls = @ + 1]
       ELSE [seen EXCEPT !.pc = "rejected", !.status = status]

\* the awaited axios.post(refresh-token) settles: replay, or reject with
\* the original error (api-client.ts) or the refresh error (earlier form)
AfterRefresh(c, status) ==
    IF status = 200 THEN [c EXCEPT !.pc = "sent", !.sends = @ + 1]
    ELSE [c EXCEPT !.pc = "rejected",
                   !.status = IF c.variant = "api-client" THEN 401 ELSE status]

\* a caller about to make one request through axiosInstance
InitClient ==
    /\ InitBooking /\ InitAuth /\ gate = NoGate /\ InitHotel
    /\ rcli = NoRetryClient /\ InitRest
    /\ cli \in [variant : Variants, url : Urls, pc : {"new"}, retry : {FALSE},
                sends : {0}, refreshCalls : {0}, status : {0}, history : {<<>>}]

ClientSend ==
    /\ cli.pc = "new"
    /\ cli' = [cli EXCEPT !.pc = "sent", !.sends = 1]
    /\ UNCHANGED otherThanClient

\* the server answers whatever it answers
ClientResponse(status) ==
    /\ cli.pc = "sent"
    /\ cli' = AfterResponse(cli, status)
    /\ UNCHANGED otherThanClient

ClientRefreshed(status) ==
    /\ cli.pc = "refreshing"
    /\ cli.sends < MaxSends
    /\ cli' = AfterRefresh(cli, status)
    /\ UNCHANGED otherThanClient

NextClient ==
    \/ ClientSend
    \/ \E status \in Statuses : ClientResponse(status)
    \/ \E status \in Statuses : ClientRefreshed(status)

SpecClient == InitClient /\ [][NextClient]_vars

\* ------------------------------------ POST /api/auth/refresh-token
\* the handler's answer: the status, the access token it sets as the
\* auth_token cookie (NoToken: none) and the cookies it clears
RefreshToken(cookies) ==
    LET refreshToken == cookies.refresh_token
    IN IF refreshToken = NoToken
       THEN [code |-> 401, message |-> "Access Denied. No refresh token provided.",
             userId |-> "", set |-> NoToken, cleared |-> {}]
       ELSE IF ~JwtVerify(refreshToken, "REFRESH_SECRET_KEY")
       THEN [code |-> 401,
             message |-> "Invalid or expired refresh token. Please login again.",
             userId |-> "", set |-> NoToken,
             cleared |-> {"auth_token", "refresh_token"}]
       ELSE IF userDb[refreshToken.userId] = NoRole
       THEN [code |-> 401, message |-> "Invalid refresh token or user not found.",
             userId |-> "", set |-> NoToken, cleared |-> {}]
       ELSE [code |-> 200, message |-> "Token refreshed successfully",
             userId |-> refreshToken.userId,
             set |-> createTokens(refreshToken.userId,
                                  userDb[refreshToken.userId]).accessToken,
             cleared |-> {}]

\* the browser applies the answer's Set-Cookie headers to its cookies
ApplyCookies(jar, answer) ==
    [n \in DOMAIN jar |->
        IF n \in answer.cleared THEN NoToken
        ELSE IF n = "auth_token" /\ answer.set # NoToken THEN answer.set
        ELSE jar[n]]

\* the cookies a refresh request can carry: the browser's, or those
\* without one of the two, or a refresh cookie that is no JWT
RefreshCookieChoices ==
    {cookieJar,
     [cookieJar EXCEPT !.refresh_token = NoToken],
     [cookieJar EXCEPT !.auth_token = NoToken],
     [cookieJar EXCEPT !.refresh_token = MalformedToken]}

\* a request to /api/auth/refresh-token on its own
RefreshRequest(cookies) ==
    /\ LET answer == RefreshToken(cookies)
       IN /\ cookieJar' = ApplyCookies(cookieJar, answer)
          /\ last' = [NoExchange EXCEPT !.op = "refresh-token", !.cookies = cookies,
                         !.code = answer.code, !.message = answer.message,
                         !.body = answer.userId, !.cleared = answer.cleared,
                         !.at = now]
    /\ UNCHANGED <<userDb, now, cli>>
    /\ UNCHANGED otherThanSession

\* the caller makes a request to a protected route through axiosInstance
SessionSend(variant) ==
    /\ cli.pc = "idle"
    /\ cli' = [NoClient EXCEPT !.variant = variant, !.url = "/api/auth/validate-token",
                               !.pc = "sent", !.sends = 1]
    /\ UNCHANGED authVars
    /\ UNCHANGED otherThanSession

\* the protected route answers the request, sent with the browser's
\* cookies and no Authorization header; the interceptor sees the answer
SessionAnswer ==
    /\ cli.pc = "sent"
    /\ LET ctx == verifyToken(NoHeader, cookieJar)
           sent == [NoExchange EXCEPT !.op = "validate-token", !.cookies = cookieJar,
                       !.at = now]
       IN /\ last' = IF ctx.ok
                     THEN [sent EXCEPT !.code = 200, !.ran = TRUE,
                                       !.reqUserId = ctx.userId,
                                       !.reqUserRole = ctx.userRole, !.body = ctx.userId]
                     ELSE [sent EXCEPT !.code = ctx.code, !.message = ctx.message,
                                       !.cleared = ctx.cleared]
          /\ cli' = AfterResponse(cli, IF ctx.ok THEN 200 ELSE ctx.code)
          /\ cookieJar' = [n \in DOMAIN cookieJar |->
                              IF n \in ctx.cleared THEN NoToken ELSE cookieJar[n]]
    /\ UNCHANGED <<userDb, now>>
    /\ UNCHANGED otherThanSession

\* the interceptor's refresh call is answered
SessionRefresh ==
    /\ cli.pc = "refreshing"
    /\ LET answer == RefreshToken(cookieJar)
       IN /\ cookieJar' = ApplyCookies(cookieJar, answer)
          /\ last' = [NoExchange EXCEPT !.op = "refresh-token", !.cookies = cookieJar,
                         !.code = answer.code, !.message = answer.message,
                         !.body = answer.userId, !.cleared = answer.cleared,
                         !.at = now]
          /\ cli' = AfterRefresh(cli, answer.code)
    /\ UNCHANGED <<userDb, now>>
    /\ UNCHANGED otherThanSession

NextSession ==
    \/ \E u \in UserIds : Register(u, "user")
    \/ \E u \in UserIds : Login(u, TRUE)
    \/ Tick
    \/ \E c \in RefreshCookieChoices : RefreshRequest(c)
    \/ \E v \in Variants : SessionSend(v)
    \/ SessionAnswer
    \/ SessionRefresh

SpecSession == Init /\ [][NextSession]_vars

\* --------------------------- the retry interceptors (lib/api-client.ts)
\* re-sends of one request the model follows
MaxResends == 5

RetryStatuses == {200, 401, 429, 0}

RECURSIVE Pow2(_)
Pow2(n) == IF n = 0 THEN 1 ELSE 2 * Pow2(n - 1)

\* the request interceptor: config.metadata = { retryCount: 0 }
RequestInterceptor(c) == [c EXCEPT !.retryCount = 0]

\* the response interceptor on a response (0: none, a network error)
RetryAfterResponse(c, status) ==
    LET seen == [c EXCEPT !.history = Append(@, status)]
    IN IF status = 200 THEN [seen EXCEPT !.pc = "resolved", !.status = 200]
       ELSE IF status = 429 /\ c.retryCount < 3
       THEN [seen EXCEPT !.retryCount = @ + 1, !.pc = "waiting",
                         !.delays = Append(@, Pow2(c.retryCount + 1 - 1) * 1000)]
       ELSE IF status = 0 /\ c.retryCount < 2
       THEN [seen EXCEPT !.retryCount = @ + 1, !.pc = "waiting",
                         !.delays = Append(@, 2000)]
       ELSE [seen EXCEPT !.pc = "rejected", !.status = status]

\* axiosInstance(request): the request interceptor, then the request goes out
RetrySend ==
    /\ rcli.pc = "new"
    /\ rcli' = [RequestInterceptor(rcli) EXCEPT !.pc = "sent"]
    /\ UNCHANGED otherThanRetry

RetryResponse(status) ==
    /\ rcli.pc = "sent"
    /\ rcli' = RetryAfterResponse(rcli, status)
    /\ UNCHANGED otherThanRetry

\* the timer fires: return axiosInstance(config), through the request
\* interceptor again
RetryResend ==
    /\ rcli.pc = "waiting"
    /\ rcli.resends < MaxResends
    /\ rcli' = [RequestInterceptor(rcli) EXCEPT !.pc = "sent", !.resends = @ + 1]
    /\ UNCHANGED otherThanRetry

NextRetry ==
    \/ RetrySend
    \/ \E status \in RetryStatuses : RetryResponse(status)
    \/ RetryResend

SpecRetry == Init /\ [][NextRetry]_vars

\* ------------------------------------------- PATCH /api/bookings/:id/status
\* the values body("status").isIn([...]) lets through
BookingStatuses == {"pending", "confirmed", "cancelled", "completed", "refunded"}

\* Booking.findByIdAndUpdate(req.params.id, {status}); 404 when there is none
BookingSetStatus(id, status) ==
    /\ \E b \in bookings : b.id = id
    /\ bookings' = {IF b.id = id THEN [b EXCEPT !.status = status] ELSE b : b \in bookings}
    /\ UNCHANGED <<paymentIntents, nextBookingId, hotelStats, userStats, reqs>>
    /\ UNCHANGED otherThanBooking

\* ------------------------------------------- POST /api/reviews/:hotelId
\* faulty variant: any confirmed booking of the hotel qualifies
QualifyingBookings_AnyGuest(u, h) ==
    {b \in bookings : b.hotelId = h /\ b.status = "confirmed"}

\* the documents Booking.findOne({userId, hotelId, status: "paid"}) matches
QualifyingBookings(u, h) ==
    {b \in bookings : b.userId = u /\ b.hotelId = h /\ b.status = "paid"}

\* the documents Review.findOne({userId, hotelId}) matches
ExistingReviews(u, h) == {rv \in reviews : rv.userId = u /\ rv.hotelId = h}

RECURSIVE SumRating(_)
SumRating(S) ==
    IF S = {} THEN 0
    ELSE LET rv == CHOOSE x \in S : TRUE IN rv.rating + SumRating(S \ {rv})

\* Review.aggregate([{$match: {hotelId}}, {$group: {avgRating, count}}])
RatingOf(h) ==
    LET S == {rv \in reviews : rv.hotelId = h}
    IN [sum |-> SumRating(S), count |-> Cardinality(S)]

\* verifyToken has attached userId; the handler issues Booking.findOne
ReviewReceive(r, u, h, rating) ==
    /\ rreqs[r].pc = "idle"
    /\ \A q \in RevIds : q < r => rreqs[q].pc # "idle"
    /\ rreqs' = [rreqs EXCEPT ![r] = [IdleRev EXCEPT !.pc = "findBooking", !.userId = u,
                                                    !.hotelId = h, !.rating = rating]]
    /\ UNCHANGED <<reviews, ratingStats>>
    /\ UNCHANGED <<bookingVars, otherThanReview>>

\* Booking.findOne has answered: 403 without a match, else Review.findOne
ReviewBookingFound(r) ==
    /\ rreqs[r].pc = "findBooking"
    /\ LET q == rreqs[r]
           found == QualifyingBookings(q.userId, q.hotelId)
       IN IF found = {}
          THEN rreqs' = [rreqs EXCEPT ![r] =
                    [q EXCEPT !.pc = "done", !.code = 403,
                              !.message = "You can only review hotels you have stayed in"]]
          ELSE \E b \in found :
                    rreqs' = [rreqs EXCEPT ![r].pc = "findReview", ![r].bookingId = b.id]
    /\ UNCHANGED <<reviews, ratingStats>>
    /\ UNCHANGED <<bookingVars, otherThanReview>>

\* Review.findOne has answered: 400 when the user has reviewed the hotel
ReviewChecked(r) ==
    /\ rreqs[r].pc = "findReview"
    /\ LET q == rreqs[r]
       IN rreqs' = [rreqs EXCEPT ![r] =
            IF ExistingReviews(q.userId, q.hotelId) # {}
            THEN [q EXCEPT !.pc = "done", !.code = 400,
                           !.message = "You already reviewed this hotel"]
            ELSE [q EXCEPT !.pc = "create"]]
    /\ UNCHANGED <<reviews, ratingStats>>
    /\ UNCHANGED <<bookingVars, otherThanReview>>

\* Review.create({userId, hotelId, bookingId, rating, ...}); the new
\* document's identity is the request's
ReviewCreated(r) ==
    /\ rreqs[r].pc = "create"
    /\ LET q == rreqs[r]
       IN reviews' = reviews \cup {[id |-> r, userId |-> q.userId, hotelId |-> q.hotelId,
                                    bookingId |-> q.bookingId, rating |-> q.rating]}
    /\ rreqs' = [rreqs EXCEPT ![r].pc = "aggregate"]
    /\ UNCHANGED ratingStats
    /\ UNCHANGED <<bookingVars, otherThanReview>>

\* Review.aggregate has answered
ReviewAggregated(r) ==
    /\ rreqs[r].pc = "aggregate"
    /\ rreqs' = [rreqs EXCEPT ![r].pc = "update", ![r].stats = RatingOf(rreqs[r].hotelId)]
    /\ UNCHANGED <<reviews, ratingStats>>
    /\ UNCHANGED <<bookingVars, otherThanReview>>

\* Hotel.findByIdAndUpdate(hotelId, {averageRating, reviewCount}); 201
ReviewHotelUpdated(r) ==
    /\ rreqs[r].pc = "update"
    /\ ratingStats' = [ratingStats EXCEPT ![rreqs[r].hotelId] = rreqs[r].stats]
    /\ rreqs' = [rreqs EXCEPT ![r].pc = "done", ![r].code = 201]
    /\ UNCHANGED reviews
    /\ UNCHANGED <<bookingVars, otherThanReview>>

\* the one booking body of the review specification: the hotel's price for
\* one night
PaidBodies(h) ==
    {[paymentIntentId |-> "pi_1", totalCost |-> pricePerNight(h), checkIn |-> 0,
      checkOut |-> MS_PER_DAY, numberOfNights |-> Absent]}

\* a guest books and pays, the booking's status is changed, guests ask to
\* review; no booking ever has the status "paid", so the handler's steps
\* after the booking lookup are never taken
NextReview ==
    \/ \E u \in UserIds, h \in HotelIds : CreatePaymentIntent(u, h, 1)
    \/ ProcessorSettles("pi_1", "succeeded")
    \/ \E u \in UserIds, h \in HotelIds : \E body \in PaidBodies(h) :
            ConfirmReceive(1, u, h, body)
    \/ ConfirmRetrieved(1)
    \/ ConfirmSave(1)
    \/ ConfirmIncHotel(1)
    \/ ConfirmIncUser(1)
    \/ \E id \in BookingIds, status \in BookingStatuses : BookingSetStatus(id, status)
    \/ \E r \in RevIds, u \in UserIds, h \in HotelIds, rating \in Ratings :
            ReviewReceive(r, u, h, rating)
    \/ \E r \in RevIds : ReviewBookingFound(r)

SpecReview == Init /\ [][NextReview]_vars


\* ------------------------------------------------------------ favorites
\* favoriteSchema.index({ userId: 1, hotelId: 1 }, { unique: true }): the
\* store refuses an insert of a pair it holds with error code 11000
DuplicateKey_NoIndex(u, h) == FALSE
DuplicateKey(u, h) == \E f \in favorites : f.userId = u /\ f.hotelId = h

\* POST /:hotelId: verifyToken has set req.userId; Favorite.create is awaited
FavAddReceive(r, u, h) ==
    /\ freqs[r].pc = "idle"
    /\ \A q \in FavIds : q < r => freqs[q].pc # "idle"
    /\ freqs' = [freqs EXCEPT ![r] = [IdleFav EXCEPT !.pc = "create", !.kind = "add",
                                                     !.userId = u, !.hotelId = h]]
    /\ UNCHANGED favorites
    /\ UNCHANGED otherThanFav

\* Favorite.create has answered: 201 with the document, 409 on error 11000
FavCreated(r) ==
    /\ freqs[r].pc = "create"
    /\ LET q == freqs[r]
       IN IF DuplicateKey(q.userId, q.hotelId)
          THEN /\ freqs' = [freqs EXCEPT ![r] =
                    [q EXCEPT !.pc = "done", !.err = "11000", !.code = 409,
                              !.message = "Already in favorites"]]
               /\ UNCHANGED favorites
          ELSE /\ favorites' = favorites \cup
                    {[id |-> r, userId |-> q.userId, hotelId |-> q.hotelId]}
               /\ freqs' = [freqs EXCEPT ![r] = [q EXCEPT !.pc = "done", !.code = 201]]
    /\ UNCHANGED otherThanFav

\* Favorite.create has thrown another error (the store is unreachable): 500
FavCreateFails(r) ==
    /\ freqs[r].pc = "create"
    /\ freqs' = [freqs EXCEPT ![r] =
            [freqs[r] EXCEPT !.pc = "done", !.err = "other", !.code = 500,
                             !.message = "Failed to add favorite"]]
    /\ UNCHANGED favorites
    /\ UNCHANGED otherThanFav

\* DELETE /:hotelId: Favorite.findOneAndDelete is awaited
FavRemoveReceive(r, u, h) ==
    /\ freqs[r].pc = "idle"
    /\ \A q \in FavIds : q < r => freqs[q].pc # "idle"
    /\ freqs' = [freqs EXCEPT ![r] = [IdleFav EXCEPT !.pc = "delete", !.kind = "remove",
                                                     !.userId = u, !.hotelId = h]]
    /\ UNCHANGED favorites
    /\ UNCHANGED otherThanFav

\* Favorite.findOneAndDelete has answered: 404 without a match, else 200
FavRemoved(r) ==
    /\ freqs[r].pc = "delete"
    /\ LET q == freqs[r]
           found == {f \in favorites : f.userId = q.userId /\ f.hotelId = q.hotelId}
       IN IF found = {}
          THEN /\ freqs' = [freqs EXCEPT ![r] =
                    [q EXCEPT !.pc = "done", !.code = 404, !.message = "Favorite not found"]]
               /\ UNCHANGED favorites
          ELSE \E f \in found :
                /\ favorites' = favorites \ {f}
                /\ freqs' = [freqs EXCEPT ![r] =
                      [q EXCEPT !.pc = "done", !.code = 200,
                                !.message = "Removed from favorites"]]
    /\ UNCHANGED otherThanFav

NextFav ==
    \/ \E r \in FavIds, u \in UserIds, h \in HotelIds : FavAddReceive(r, u, h)
    \/ \E r \in FavIds : FavCreated(r)
    \/ \E r \in FavIds : FavCreateFails(r)
    \/ \E r \in FavIds, u \in UserIds, h \in HotelIds : FavRemoveReceive(r, u, h)
    \/ \E r \in FavIds : FavRemoved(r)

SpecFav == Init /\ [][NextFav]_vars

\* ------------------------------------------- POST /api/users/register
\* User.email is unique: the store refuses to save a second User of an email
EmailTaken(email) == \E a \in accounts : a.email = email

\* the answer to a registration whose email User.findOne has found
AlreadyExists(variant) ==
    IF variant = "users"
    THEN [code |-> 400, message |-> "User already exists"]
    ELSE [code |-> 409, message |-> "Email already in use"]

\* the cookies a successful registration sets
RegisterCookies(variant) ==
    IF variant = "users" THEN {"auth_token", "refresh_token"} ELSE {"session_id"}

\* the validators have run: 400 with their errors, else User.findOne is awaited
RegReceive(r, variant, email, valid) ==
    /\ regs[r].pc = "idle"
    /\ \A q \in RegIds : q < r => regs[q].pc # "idle"
    /\ regs' = [regs EXCEPT ![r] =
            IF valid
            THEN [IdleReg EXCEPT !.pc = "findOne", !.variant = variant, !.email = email]
            ELSE [IdleReg EXCEPT !.pc = "done", !.variant = variant, !.email = email,
                                 !.code = 400, !.message = "errors"]]
    /\ UNCHANGED accounts
    /\ UNCHANGED otherThanReg

\* User.findOne({ email }) has answered: the duplicate answer, else user.save()
RegFound(r) ==
    /\ regs[r].pc = "findOne"
    /\ LET q == regs[r]
       IN regs' = [regs EXCEPT ![r] =
            IF \E a \in accounts : a.email = q.email
            THEN [q EXCEPT !.pc = "done", !.code = AlreadyExists(q.variant).code,
                           !.message = AlreadyExists(q.variant).message]
            ELSE [q EXCEPT !.pc = "save"]]
    /\ UNCHANGED accounts
    /\ UNCHANGED otherThanReg

\* user.save() has answered: cookies and 200, or the catch's 500 when it threw
RegSaved(r) ==
    /\ regs[r].pc = "save"
    /\ LET q == regs[r]
       IN IF EmailTaken(q.email)
          THEN /\ regs' = [regs EXCEPT ![r] =
                    [q EXCEPT !.pc = "done", !.code = 500,
                              !.message = "Something went wrong"]]
               /\ UNCHANGED accounts
          ELSE /\ accounts' = accounts \cup {[id |-> r, email |-> q.email]}
               /\ regs' = [regs EXCEPT ![r] =
                    [q EXCEPT !.pc = "done", !.code = 200, !.message = "User registered OK",
                              !.cookies = RegisterCookies(q.variant)]]
    /\ UNCHANGED otherThanReg

NextReg ==
    \/ \E r \in RegIds, variant \in RegVariants, email \in Emails, valid \in BOOLEAN :
            RegReceive(r, variant, email, valid)
    \/ \E r \in RegIds : RegFound(r)
    \/ \E r \in RegIds : RegSaved(r)

SpecReg == Init /\ [][NextReg]_vars

\* ------------------------------------------- GET /api/hotels/search
\* JavaScript truthiness of a query field: a missing field and "" are falsy
Truthy(p) ==
    CASE p.kind = "absent" -> FALSE
      [] p.kind = "string" -> p.items[1] # <<>>
      [] OTHER -> TRUE

\* String.prototype.trim
RECURSIVE TrimStart(_)
TrimStart(s) == IF s # <<>> /\ Head(s) = " " THEN TrimStart(Tail(s)) ELSE s
RECURSIVE TrimEnd(_)
TrimEnd(s) ==
    IF s # <<>> /\ s[Len(s)] = " " THEN TrimEnd(SubSeq(s, 1, Len(s) - 1)) ELSE s
Trim(s) == TrimEnd(TrimStart(s))

\* parseInt: the leading decimal digits after leading blanks, NaN without any
NaN == 0 - 999
DigitChars == {"0", "1", "2", "3", "4", "5"}
DigitVal(c) ==
    CASE c = "0" -> 0 [] c = "1" -> 1 [] c = "2" -> 2 [] c = "3" -> 3 [] c = "4" -> 4
      [] OTHER -> 5
RECURSIVE LeadingDigits(_)
LeadingDigits(s) ==
    IF s # <<>> /\ Head(s) \in DigitChars THEN <<Head(s)>> \o LeadingDigits(Tail(s)) ELSE <<>>
RECURSIVE DigitsValue(_)
DigitsValue(d) ==
    IF d = <<>> THEN 0 ELSE 10 * DigitsValue(SubSeq(d, 1, Len(d) - 1)) + DigitVal(d[Len(d)])
parseInt(s) ==
    LET t == TrimStart(s)
        neg == t # <<>> /\ Head(t) = "-"
        d == LeadingDigits(IF neg THEN Tail(t) ELSE t)
    IN IF d = <<>> THEN NaN
       ELSE IF neg THEN 0 - DigitsValue(d) ELSE DigitsValue(d)

\* Array.isArray(x) ? x : [x], as the set of its elements
AsList(p) == {p.items[i] : i \in 1 .. Len(p.items)}

constructSearchQuery(queryParams) ==
    [or |->
        IF queryParams.destination.kind = "string"
              /\ Trim(queryParams.destination.items[1]) # <<>>
        THEN Filter(Trim(queryParams.destination.items[1]))
        ELSE NoFilter,
     facilities |->
        IF Truthy(queryParams.facilities) THEN Filter(AsList(queryParams.facilities))
        ELSE NoFilter,
     type |->
        IF Truthy(queryParams.types) THEN Filter(AsList(queryParams.types)) ELSE NoFilter,
     starRating |->
        IF Truthy(queryParams.stars)
        THEN Filter({parseInt(x) : x \in AsList(queryParams.stars)})
        ELSE NoFilter,
     pricePerNight |->
        IF Truthy(queryParams.maxPrice) THEN Filter(parseInt(queryParams.maxPrice.items[1]))
        ELSE NoFilter,
     adultCount |->
        IF Truthy(queryParams.adultCount)
              /\ parseInt(queryParams.adultCount.items[1]) # NaN
        THEN Filter(parseInt(queryParams.adultCount.items[1]))
        ELSE NoFilter,
     childCount |->
        IF Truthy(queryParams.childCount)
              /\ parseInt(queryParams.childCount.items[1]) # NaN
        THEN Filter(parseInt(queryParams.childCount.items[1]))
        ELSE NoFilter]

\* $options: "i"
Lower(c) == IF c = "A" THEN "a" ELSE c

\* one pattern character against one character of the text: in a regular
\* expression "." stands for any character, the others here for themselves
RegexChar(pc, tc) == pc = "." \/ Lower(pc) = Lower(tc)

\* { $regex: pattern, $options: "i" }: the pattern matches somewhere in the text
RegexMatch(pattern, text) ==
    \E off \in 0 .. Len(text) :
        /\ off + Len(pattern) <= Len(text)
        /\ \A j \in 1 .. Len(pattern) : RegexChar(pattern[j], text[off + j])

\* the store's evaluation of the query on one Hotel document
Matches(k, query) ==
    /\ query.or.set =>
            RegexMatch(query.or.arg, k.city) \/ RegexMatch(query.or.arg, k.country)
    /\ query.facilities.set => query.facilities.arg \subseteq k.facilities
    /\ query.type.set => k.type \cap query.type.arg # {}
    /\ query.starRating.set => k.starRating \in query.starRating.arg
    /\ query.pricePerNight.set => k.pricePerNight <= query.pricePerNight.arg
    /\ query.adultCount.set => k.adultCount >= query.adultCount.arg
    /\ query.childCount.set => k.childCount >= query.childCount.arg

\* switch (req.query.sortOption): the sort key, "" without a known option
SortOptions(p) ==
    IF p.kind = "string" /\ p.items[1] \in {"starRating", "pricePerNightAsc", "pricePerNightDesc"}
    THEN p.items[1]
    ELSE ""

pageSize == 5

\* parseInt(req.query.page ? req.query.page.toString() : "1")
PageNumber(p) == IF Truthy(p) THEN parseInt(p.items[1]) ELSE 1

\* (pageNumber - 1) * pageSize, NaN for a NaN page number
SkipOf_PageTimesSize(pageNumber) == IF pageNumber = NaN THEN NaN ELSE pageNumber * pageSize
SkipOf(pageNumber) == IF pageNumber = NaN THEN NaN ELSE (pageNumber - 1) * pageSize

\* .sort(sortOptions): a comes before b; documents with equal keys, and all
\* documents without a sort key, stay in the store's order
SortsBefore(a, b, sortOptions) ==
    CASE sortOptions = "starRating" ->
            a.starRating > b.starRating \/ (a.starRating = b.starRating /\ a.id < b.id)
      [] sortOptions = "pricePerNightAsc" ->
            a.pricePerNight < b.pricePerNight
                \/ (a.pricePerNight = b.pricePerNight /\ a.id < b.id)
      [] sortOptions = "pricePerNightDesc" ->
            a.pricePerNight > b.pricePerNight
                \/ (a.pricePerNight = b.pricePerNight /\ a.id < b.id)
      [] OTHER -> a.id < b.id

RECURSIVE Sorted(_, _)
Sorted(S, sortOptions) ==
    IF S = {} THEN <<>>
    ELSE LET first == CHOOSE a \in S : \A b \in S \ {a} : SortsBefore(a, b, sortOptions)
         IN <<first>> \o Sorted(S \ {first}, sortOptions)

\* .skip(n) / .limit(n) on the sorted documents
Skip(seq, n) == IF n >= Len(seq) THEN <<>> ELSE SubSeq(seq, n + 1, Len(seq))
Limit(seq, n) == IF n >= Len(seq) THEN seq ELSE SubSeq(seq, 1, n)

\* Math.ceil(total / pageSize)
CeilDiv(a, b) == (a + b - 1) \div b

\* the store refuses a negative skip
StoreRejects(srch) == srch.skip # NaN /\ srch.skip < 0

\* a NaN operand or a NaN skip: the query layer either refuses to cast it or
\* hands it to the store, where no number compares with NaN and the skip counts as 0
StoreMayReject(srch) ==
    \/ srch.skip = NaN
    \/ srch.query.pricePerNight.set /\ srch.query.pricePerNight.arg = NaN
    \/ srch.query.starRating.set /\ NaN \in srch.query.starRating.arg

\* router.get("/search"): the query, the sort and the skip are built,
\* Hotel.find is awaited
SearchReceive(queryParams) ==
    /\ search.pc = "idle"
    /\ search' = [search EXCEPT !.pc = "find", !.params = queryParams,
                                !.query = constructSearchQuery(queryParams),
                                !.sortOptions = SortOptions(queryParams.sortOption),
                                !.pageNumber = PageNumber(queryParams.page),
                                !.skip = SkipOf(PageNumber(queryParams.page))]
    /\ UNCHANGED otherThanSearch

\* Hotel.find(query).sort().skip().limit() has answered; countDocuments is awaited
SearchFound ==
    /\ search.pc = "find"
    /\ ~StoreRejects(search)
    /\ LET matched == {k \in search.catalog : Matches(k, search.query)}
           skip == IF search.skip = NaN THEN 0 ELSE search.skip
       IN search' = [search EXCEPT !.pc = "count", !.matched = matched,
                        !.data = Limit(Skip(Sorted(matched, search.sortOptions), skip), pageSize)]
    /\ UNCHANGED otherThanSearch

\* Hotel.find has thrown: the catch answers 500
SearchThrows ==
    /\ search.pc = "find"
    /\ StoreRejects(search) \/ StoreMayReject(search)
    /\ search' = [search EXCEPT !.pc = "done", !.code = 500,
                                !.message = "Something went wrong"]
    /\ UNCHANGED otherThanSearch

\* Hotel.countDocuments(query) has answered: the response is sent
SearchCounted ==
    /\ search.pc = "count"
    /\ LET total == Cardinality({k \in search.catalog : Matches(k, search.query)})
       IN search' = [search EXCEPT !.pc = "done", !.code = 200,
                        !.pagination = [total |-> total, page |-> search.pageNumber,
                                        pages |-> CeilDiv(total, pageSize)]]
    /\ UNCHANGED otherThanSearch

NextSearch ==
    \/ search.pc = "idle" /\ \E queryParams \in QueryParams : SearchReceive(queryParams)
    \/ SearchFound
    \/ SearchCounted

SpecSearch == Init /\ [][NextSearch]_vars

\* ---- paging: a catalog of up to MaxHotels hotels, pages and malformed fields
MaxHotels == 12
PagedHotel(i) ==
    [id |-> i, city |-> <<"a">>, country |-> <<"b">>, facilities |-> {},
     type |-> {<<"t", "1">>}, starRating |-> (i % 3) + 1, pricePerNight |-> i,
     adultCount |-> 2, childCount |-> 1]
PagedCatalog(n) == {PagedHotel(i) : i \in 1 .. n}

PageChoices ==
    {NoParam, Str(<<>>), Str(<<"1">>), Str(<<"2">>), Str(<<"3">>), Str(<<"4">>),
     Str(<<"0">>), Str(<<"-", "1">>), Str(<<"x">>)}
SortChoices ==
    {NoParam, Str("starRating"), Str("pricePerNightAsc"), Str("pricePerNightDesc")}
PagedParams ==
    [destination : {NoParam}, facilities : {NoParam}, types : {NoParam},
     stars : {NoParam, Str(<<"x">>)},
     maxPrice : {NoParam, Str(<<"3">>), Str(<<"0">>), Str(<<"x">>)},
     adultCount : {NoParam, Str(<<"x">>)}, childCount : {NoParam, Str(<<"x">>)},
     sortOption : SortChoices, page : PageChoices]

InitPaged ==
    /\ InitBooking /\ InitAuth /\ gate = NoGate /\ InitHotel /\ InitClients /\ InitStores
    /\ search \in {[NoSearch EXCEPT !.catalog = PagedCatalog(n)] : n \in 0 .. MaxHotels}
    /\ app = NoApp

NextPaged ==
    \/ search.pc = "idle" /\ \E queryParams \in PagedParams : SearchReceive(queryParams)
    \/ SearchFound
    \/ SearchThrows
    \/ SearchCounted

SpecPaged == InitPaged /\ [][NextPaged]_vars

\* ------------------------------------------- the client route guard
\* the roles prop of the route's ProtectedRoute ({} without the prop)
RouteRoles(path) ==
    CASE path = "/admin" -> {"admin"}
      [] path \in {"/add-hotel", "/edit-hotel/:hotelId", "/my-hotels"} -> {"hotel_owner"}
      [] OTHER -> {}

IsProtected(path) ==
    path \in {"/hotel/:hotelId/booking", "/my-bookings", "/add-hotel",
              "/edit-hotel/:hotelId", "/my-hotels", "/admin"}

\* isLoggedIn = !isLoading && !isError && !!validateData
isLoggedIn(a) == a.validate = "ok"

\* ProtectedRoute: where it navigates to, or "children"
ProtectedRoute(loggedIn, user, roles) ==
    IF ~loggedIn THEN "/sign-in"
    ELSE IF roles # {} /\ user # NoRole /\ user \notin roles THEN "/"
    ELSE "children"

\* the router renders the current location with the context's values
Render(a) ==
    IF ~IsProtected(a.path) THEN [a EXCEPT !.shown = "public"]
    ELSE LET out == ProtectedRoute(isLoggedIn(a), a.user, RouteRoles(a.path))
         IN IF out = "children" THEN [a EXCEPT !.shown = "children"]
            ELSE [a EXCEPT !.path = out, !.shown = "public"]

\* the validateToken query settles; on success the loadUser effect calls
\* fetchCurrentUser, otherwise it sets the user to null
ValidateAnswered(ok) ==
    /\ app.validate = "loading"
    /\ app' = Render(IF ok
                     THEN [app EXCEPT !.validate = "ok", !.me = "pending"]
                     ELSE [app EXCEPT !.validate = "error", !.user = NoRole])
    /\ UNCHANGED otherThanGuard

\* fetchCurrentUser settles: setUser(me), or setUser(null) when it threw
MeAnswered(ok) ==
    /\ app.me = "pending"
    /\ app' = Render([app EXCEPT !.me = "idle", !.user = IF ok THEN app.role ELSE NoRole])
    /\ UNCHANGED otherThanGuard

\* the user follows a link or enters a location
Visit(path) ==
    /\ app.path # path
    /\ app' = Render([app EXCEPT !.path = path])
    /\ UNCHANGED otherThanGuard

\* the page is loaded anew at its location
Reload ==
    /\ app.validate # "loading"
    /\ app' = Render([NoApp EXCEPT !.role = app.role, !.path = app.path])
    /\ UNCHANGED otherThanGuard

InitGuard ==
    /\ InitBooking /\ InitAuth /\ gate = NoGate /\ InitHotel /\ InitClients /\ InitStores
    /\ search = NoSearch
    /\ app \in {Render([NoApp EXCEPT !.role = role, !.path = path]) :
                    role \in Roles, path \in Paths}

NextGuard ==
    \/ \E ok \in BOOLEAN : ValidateAnswered(ok)
    \/ \E ok \in BOOLEAN : MeAnswered(ok)
    \/ \E path \in Paths : Visit(path)
    \/ Reload

SpecGuard == InitGuard /\ [][NextGuard]_vars

\* ------------------------------------------- the booking specifications
\* request bodies of the concurrent booking specification
Bodies ==
    [paymentIntentId : IntentIds, totalCost : 1 .. MaxCost, checkIn : {0},
     checkOut : {0, MS_PER_DAY}, numberOfNights : {Absent}]

\* every body the validators tell apart
AllBodies ==
    [paymentIntentId : IntentIds \cup {""},
     totalCost : (1 .. MaxCost) \cup {Invalid},
     checkIn : Times \cup {Invalid},
     checkOut : Times \cup {Invalid},
     numberOfNights : (0 .. MaxNights) \cup {Absent}]

\* ---- deletions of stored Bookings: the confirmations that stored them
\* have been answered
StoredBooking(id, u, h, cost) ==
    [NewBooking([IdleReq EXCEPT !.userId = u, !.hotelId = h, !.totalCost = cost,
                                !.checkOut = MS_PER_DAY])
        EXCEPT !.id = id]

InitDelete ==
    /\ InitAuth /\ gate = NoGate /\ InitHotel /\ InitClients /\ InitRest
    /\ reqs = [r \in ReqIds |-> IdleReq]
    /\ \E u \in UserIds, h \in HotelIds, n \in 1 .. 2, c \in 1 .. MaxCost :
        LET stored == {StoredBooking(id, u, h, c) : id \in 1 .. n}
        IN /\ paymentIntents = [i \in IntentIds |->
                    [hotelId |-> h, userId |-> u, amount |-> pricePerNight(h) * 100,
                     status |-> "succeeded"]]
           /\ bookings = stored
           /\ nextBookingId = n + 1
           /\ hotelStats = IncHotel([k \in HotelIds |-> [totalBookings |-> 0, totalRevenue |-> 0]],
                                    h, [totalBookings |-> n, totalRevenue |-> n * c])
           /\ userStats = IncUser([v \in UserIds |-> [totalBookings |-> 0, totalSpent |-> 0]],
                                  u, [totalBookings |-> n, totalSpent |-> n * c])

NextDelete ==
    \/ \E r \in ReqIds, id \in BookingIds : DeleteReceive(r, id)
    \/ \E r \in ReqIds : DeleteDecHotel(r)
    \/ \E r \in ReqIds : DeleteDecUser(r)
    \/ \E r \in ReqIds : DeleteThrows(r)

SpecDelete == InitDelete /\ [][NextDelete]_vars

\* bodies that also carry identity and status fields of their own
ForgedBodies ==
    [paymentIntentId : IntentIds, totalCost : 1 .. MaxCost, checkIn : {0},
     checkOut : {MS_PER_DAY}, numberOfNights : {Absent},
     userId : UserIds \cup {""}, hotelId : HotelIds \cup {""},
     status : {"", "cancelled"}, paymentStatus : {"", "refunded"}]

\* one confirmation whose body carries fields of its own
NextForged ==
    \/ \E u \in UserIds, h \in HotelIds : CreatePaymentIntent(u, h, 1)
    \/ \E i \in IntentIds, s \in {"succeeded", "canceled"} : ProcessorSettles(i, s)
    \/ \E u \in UserIds, h \in HotelIds, body \in ForgedBodies : ConfirmReceive(1, u, h, body)
    \/ ConfirmRetrieved(1)
    \/ ConfirmSave(1)
    \/ ConfirmIncHotel(1)
    \/ ConfirmIncUser(1)

SpecForged == Init /\ [][NextForged]_vars

Next ==
    \/ \E u \in UserIds, h \in HotelIds, n \in 1 .. MaxNights : CreatePaymentIntent(u, h, n)
    \/ \E i \in IntentIds, s \in {"succeeded", "canceled"} : ProcessorSettles(i, s)
    \/ \E r \in ReqIds, u \in UserIds, h \in HotelIds, body \in Bodies : ConfirmReceive(r, u, h, body)
    \/ \E r \in ReqIds : ConfirmRetrieved(r)
    \/ \E r \in ReqIds : ConfirmSave(r)
    \/ \E r \in ReqIds : ConfirmIncHotel(r)
    \/ \E r \in ReqIds : ConfirmIncUser(r)
    \/ \E r \in ReqIds : ConfirmThrows(r)
    \/ \E r \in ReqIds, id \in BookingIds : DeleteReceive(r, id)
    \/ \E r \in ReqIds : DeleteDecHotel(r)
    \/ \E r \in ReqIds : DeleteDecUser(r)
    \/ \E r \in ReqIds : DeleteThrows(r)

\* concurrent confirmations and deletions
Spec == Init /\ [][Next]_vars

\* one confirmation at a time, over every body the validators tell apart
NextValidate ==
    \/ \E u \in UserIds, h \in HotelIds, n \in 1 .. MaxNights : CreatePaymentIntent(u, h, n)
    \/ \E i \in IntentIds, s \in {"succeeded", "canceled"} : ProcessorSettles(i, s)
    \/ \E u \in UserIds, h \in HotelIds, body \in AllBodies : ConfirmReceive(1, u, h, body)
    \/ ConfirmRetrieved(1)
    \/ ConfirmSave(1)
    \/ ConfirmIncHotel(1)
    \/ ConfirmIncUser(1)
    \/ ConfirmThrows(1)

SpecValidate == Init /\ [][NextValidate]_vars

\* ------------------------------------------------------------ properties
RECURSIVE SumCost(_)
SumCost(S) ==
    IF S = {} THEN 0
    ELSE LET b == CHOOSE x \in S : TRUE IN b.totalCost + SumCost(S \ {b})

Quiescent == \A r \in ReqIds : reqs[r].pc \in {"idle", "done"}
NoFailure == \A r \in ReqIds : reqs[r].code # 500
AtRetrieve(r) == reqs[r].kind = "confirm" /\ reqs[r].pc = "retrieve"
Leaves(r) == reqs'[r] # reqs[r]
StoreUntouched ==
    /\ bookings' = bookings
    /\ hotelStats' = hotelStats
    /\ userStats' = userStats
Rejected400(r) == reqs'[r].pc = "done" /\ reqs'[r].code = 400

\* C1: a confirmation whose payment intent carries another hotelId or
\* another userId than the request is answered 400 in the very step that
\* compares them, that step creates no Booking and changes no counter, and an
\* answered request takes no further step.
C1_MismatchRejected ==
    [][\A r \in ReqIds :
        /\ (/\ AtRetrieve(r) /\ Leaves(r)
            /\ paymentIntents[reqs[r].paymentIntentId] # NoIntent
            /\ \/ paymentIntents[reqs[r].paymentIntentId].hotelId # reqs[r].hotelId
               \/ paymentIntents[reqs[r].paymentIntentId].userId # reqs[r].userId)
           => (Rejected400(r) /\ StoreUntouched)
        /\ reqs[r].pc = "done" => reqs'[r] = reqs[r]]_vars

C1_Witness ==
    \E r \in ReqIds :
        /\ reqs[r].pc = "done" /\ reqs[r].message = "payment intent mismatch"
        /\ paymentIntents["pi_1"].status = "succeeded"

\* C2: once every request has been answered, none with a failure, and all
\* were confirmations, there is one Booking per 200 answer, each hotel's
\* totalBookings / totalRevenue are the number and the summed totalCost of
\* its Bookings, and each user's totalBookings / totalSpent likewise.
C2_CountersAfterConfirmations ==
    (Quiescent /\ NoFailure /\ \A r \in ReqIds : reqs[r].kind # "delete")
    => /\ Cardinality(bookings) =
            Cardinality({r \in ReqIds : reqs[r].kind = "confirm" /\ reqs[r].code = 200})
       /\ \A h \in HotelIds :
            LET mine == {b \in bookings : b.hotelId = h}
            IN /\ hotelStats[h].totalBookings = Cardinality(mine)
               /\ hotelStats[h].totalRevenue = SumCost(mine)
       /\ \A u \in UserIds :
            LET mine == {b \in bookings : b.userId = u}
            IN /\ userStats[u].totalBookings = Cardinality(mine)
               /\ userStats[u].totalSpent = SumCost(mine)

C2_Witness ==
    /\ Quiescent /\ NoFailure
    /\ \A r \in ReqIds : reqs[r].kind = "confirm" /\ reqs[r].code = 200
    /\ \E h \in HotelIds : hotelStats[h].totalBookings = MaxReqs

\* C3: every stored Booking has totalCost = pricePerNight * nights.
C3_TotalCostIsPriceTimesNights ==
    \A b \in bookings :
        b.totalCost = pricePerNight(b.hotelId) * diffNights(b.checkIn, b.checkOut)

\* C4: a confirmation passes the validators only if its dates span at least
\* one night and a supplied numberOfNights equals the computed night count;
\* a body that is well-formed, spans one night or more and supplies no
\* numberOfNights is not rejected by them; every Booking spans a night.
C4_NightValidation ==
    /\ \A r \in ReqIds :
        LET q == reqs[r]
            nights == diffNights(q.checkIn, q.checkOut)
        IN /\ AtRetrieve(r) =>
                /\ nights >= 1
                /\ q.numberOfNights = Absent \/ q.numberOfNights = nights
           /\ (q.pc = "done" /\ q.message = "validation"
               /\ q.paymentIntentId # "" /\ q.totalCost # Invalid
               /\ q.checkIn # Invalid /\ q.checkOut # Invalid
               /\ q.numberOfNights = Absent)
              => nights < 1
    /\ \A b \in bookings : diffNights(b.checkIn, b.checkOut) >= 1

\* C5: a confirmation that retrieves an intent whose status is not
\* "succeeded" is answered 400 in that step, which creates no Booking and
\* changes no counter, and, the metadata matching, the answer carries the
\* literal status; a Booking is stored only by a request whose intent has
\* status "succeeded".
C5_OnlySucceededConfirms ==
    [][/\ \A r \in ReqIds :
            (/\ AtRetrieve(r) /\ Leaves(r)
             /\ paymentIntents[reqs[r].paymentIntentId] # NoIntent
             /\ paymentIntents[reqs[r].paymentIntentId].status # "succeeded")
            => /\ Rejected400(r) /\ StoreUntouched
               /\ (/\ paymentIntents[reqs[r].paymentIntentId].hotelId = reqs[r].hotelId
                   /\ paymentIntents[reqs[r].paymentIntentId].userId = reqs[r].userId)
                  => /\ reqs'[r].message = "payment intent not succeeded"
                     /\ reqs'[r].detail = paymentIntents[reqs[r].paymentIntentId].status
       /\ (bookings' \ bookings # {})
            => \E r \in ReqIds :
                /\ reqs[r].kind = "confirm" /\ Leaves(r)
                /\ paymentIntents[reqs[r].paymentIntentId].status = "succeeded"]_vars

C5_Witness ==
    \E r \in ReqIds :
        /\ reqs[r].pc = "done" /\ reqs[r].message = "payment intent not succeeded"
        /\ reqs[r].detail = "requires_payment_method"

\* C6: once every request has been answered, none with a failure, each
\* hotel's and each user's counters are the number and the summed totalCost
\* of the Bookings still stored: a deletion takes back exactly what the
\* confirmation of that Booking added.
C6_DeletionUndoesConfirmation ==
    (Quiescent /\ NoFailure)
    => /\ \A h \in HotelIds :
            LET mine == {b \in bookings : b.hotelId = h}
            IN /\ hotelStats[h].totalBookings = Cardinality(mine)
               /\ hotelStats[h].totalRevenue = SumCost(mine)
       /\ \A u \in UserIds :
            LET mine == {b \in bookings : b.userId = u}
            IN /\ userStats[u].totalBookings = Cardinality(mine)
               /\ userStats[u].totalSpent = SumCost(mine)

C6_Witness ==
    /\ Quiescent /\ NoFailure
    /\ \E r \in ReqIds : reqs[r].kind = "confirm" /\ reqs[r].code = 200
    /\ \E r \in ReqIds : reqs[r].kind = "delete" /\ reqs[r].code = 200
    /\ bookings = {}
    /\ \A h \in HotelIds : hotelStats[h] = [totalBookings |-> 0, totalRevenue |-> 0]
    /\ \A u \in UserIds : userStats[u] = [totalBookings |-> 0, totalSpent |-> 0]

\* the tokens a validate-token request carried, and whether one verifies
Carried(x) ==
    {x.cookies.auth_token, x.cookies.session_id}
    \cup (IF x.header.scheme = "Bearer" THEN {x.header.token} ELSE {})
VerifiesAt(t, at) == t.secret = "JWT_SECRET_KEY" /\ at < t.exp

\* C7: a validate-token request that carries exactly the auth_token and
\* refresh_token cookies a login or registration set (no session cookie, no
\* Authorization header), the access token not yet expired, is answered 200
\* with that user's id, and the handler sees that user's id and role.
C7_LoginCookiesVerify ==
    (/\ last.op = "validate-token"
     /\ last.header = NoHeader
     /\ last.cookies.session_id = NoToken
     /\ VerifiesAt(last.cookies.auth_token, last.at)
     /\ last.cookies.refresh_token.secret = "REFRESH_SECRET_KEY"
     /\ last.cookies.refresh_token.userId = last.cookies.auth_token.userId)
    => /\ last.code = 200
       /\ last.body = last.cookies.auth_token.userId
       /\ last.reqUserId = last.cookies.auth_token.userId
       /\ last.reqUserRole = last.cookies.auth_token.userRole

\* C8 as claimed: a request none of whose tokens verifies is answered 401,
\* an auth cookie is cleared and the handler does not run.
C8_FailureClearsCookie ==
    (/\ last.op = "validate-token"
     /\ \A t \in Carried(last) : ~VerifiesAt(t, last.at))
    => /\ last.code = 401
       /\ ~last.ran
       /\ last.cleared \cap {"auth_token", "session_id"} # {}

\* C8 as amended: a request none of whose tokens verifies (absent, malformed,
\* wrongly signed or expired) is answered 401 Unauthorized, the handler does
\* not run, nothing is attached to the request and no cookie is cleared;
\* userId / userRole are attached, and the handler runs, only with the
\* payload of a token the request carried and that verifies.
C8_FailureIs401 ==
    last.op = "validate-token"
    => /\ (\A t \in Carried(last) : ~VerifiesAt(t, last.at))
            => /\ last.code = 401 /\ last.message = "Unauthorized"
               /\ ~last.ran
               /\ last.reqUserId = "" /\ last.reqUserRole = NoRole
               /\ last.cleared = {}
       /\ (last.ran \/ last.reqUserId # "" \/ last.reqUserRole # NoRole)
            => \E t \in Carried(last) :
                /\ VerifiesAt(t, last.at)
                /\ last.reqUserId = t.userId /\ last.reqUserRole = t.userRole

C8_Witness ==
    /\ last.op = "validate-token"
    /\ last.header = NoHeader
    /\ last.cookies.session_id.secret = "JWT_SECRET_KEY"
    /\ last.cookies.session_id.exp <= last.at
    /\ last.code = 401

\* C9: a validate-token request without an auth cookie is answered 401 and
\* its handler does not run, whatever its Authorization header holds.
C9_TokenOnlyFromCookie ==
    (/\ last.op = "validate-token"
     /\ last.cookies.auth_token = NoToken
     /\ last.cookies.session_id = NoToken)
    => last.code = 401 /\ ~last.ran

C11_OnlyOwnerUpdates ==
    [][/\ \A r \in PutIds :
            (/\ puts[r].pc \notin {"idle", "done"}
             /\ puts'[r] # puts[r]
             /\ hotels[puts[r].hotelId].userId # puts[r].userId)
            => /\ puts[r].userRole = "hotel_owner"
               /\ puts'[r].pc = "done" /\ puts'[r].code \in {404, 500}
               /\ puts'[r].code = 500 \/ puts'[r].message = "Hotel not found"
               /\ hotels' = hotels
               /\ bucket' = bucket
       /\ \A h \in HotelIds :
            hotels'[h] # hotels[h]
            => \E r \in PutIds : /\ puts'[r] # puts[r]
                                 /\ puts[r].hotelId = h
                                 /\ puts[r].userId = hotels[h].userId
                                 /\ hotels'[h].userId = hotels[h].userId
      ]_vars

C11_Witness ==
    \E r \in PutIds :
        /\ puts[r].pc = "done" /\ puts[r].code = 404
        /\ \E q \in PutIds : puts[q].pc = "done" /\ puts[q].code = 200

\* C12: one request through the refresh interceptor causes at most one call
\* to /api/auth/refresh-token and is sent at most twice (one replay); once
\* the replay has been answered 401 the request is rejected with 401 and
\* nothing more is sent, whatever the responses are.
C12_OneRefreshOneReplay ==
    /\ cli.refreshCalls <= 1
    /\ cli.sends <= 2
    /\ Len(cli.history) <= 2
    /\ cli.sends = 2 => cli.refreshCalls = 1 /\ cli.retry
    /\ (Len(cli.history) = 2 /\ cli.history[2] = 401)
        => cli.pc = "rejected" /\ cli.status = 401
    /\ Len(cli.history) = 2 => cli.pc \in {"resolved", "rejected"}

C12_Witness ==
    /\ cli.history = <<401, 401>>
    /\ cli.pc = "rejected"
    /\ cli.refreshCalls = 1 /\ cli.sends = 2

\* C13: a protected request whose first answer was 401 and whose refresh
\* succeeded is replayed with the new access-token cookie, still unexpired,
\* and the replay is accepted: the caller gets the 200 and no 401.
C13_RefreshThenSuccess ==
    (/\ cli.sends = 2
     /\ cli.pc \in {"resolved", "rejected"}
     /\ last.op = "validate-token"
     /\ VerifiesAt(last.cookies.auth_token, last.at))
    => /\ cli.pc = "resolved" /\ cli.status = 200
       /\ cli.history = <<401, 200>>

\* C14: every refresh answered 401 leaves the browser without the auth_token
\* and the refresh_token cookie, and no refresh answered 401 sets a new
\* access token.
C14_FailedRefreshLogsOut ==
    [][(/\ last'.op = "refresh-token"
        /\ last'.code = 401
        /\ last' # last \/ cookieJar' # cookieJar)
       => /\ cookieJar'.auth_token = NoToken
          /\ cookieJar'.refresh_token = NoToken
      ]_vars

\* C15: a request answered 429 every time is re-sent at most 3 times, after
\* waits of 1s, 2s and 4s; a request that gets no response every time is
\* re-sent at most 2 times; no request is re-sent more than 3 times.
C15_RetriesBounded ==
    /\ (\A i \in DOMAIN rcli.history : rcli.history[i] = 429)
        => /\ rcli.resends <= 3
           /\ \A i \in DOMAIN rcli.delays : rcli.delays[i] = Pow2(i - 1) * 1000
    /\ (\A i \in DOMAIN rcli.history : rcli.history[i] = 0) => rcli.resends <= 2
    /\ rcli.resends <= 3

\* the user holds a paid booking of the hotel
HasPaidBooking(u, h) ==
    \E b \in bookings : b.userId = u /\ b.hotelId = h /\ b.paymentStatus = "paid"

HasBooking(u, h) == \E b \in bookings : b.userId = u /\ b.hotelId = h

\* C18: a create-review request by a user who holds no booking of the hotel
\* is answered 403 when the booking lookup returns, and that step stores no
\* Review and leaves averageRating / reviewCount as they are; every stored
\* Review names a booking of its own user and hotel.
C18_ReviewNeedsBooking ==
    [][/\ \A r \in RevIds :
            (/\ rreqs[r].pc = "findBooking"
             /\ rreqs'[r] # rreqs[r]
             /\ ~HasBooking(rreqs[r].userId, rreqs[r].hotelId))
            => /\ rreqs'[r].pc = "done" /\ rreqs'[r].code = 403
               /\ reviews' = reviews
               /\ ratingStats' = ratingStats
       /\ \A rv \in reviews' :
            \E b \in bookings' : /\ b.id = rv.bookingId
                                 /\ b.userId = rv.userId
                                 /\ b.hotelId = rv.hotelId
      ]_vars

C18_Witness ==
    \E r \in RevIds :
        /\ rreqs[r].pc = "done" /\ rreqs[r].code = 403
        /\ ~HasBooking(rreqs[r].userId, rreqs[r].hotelId)
        /\ \E b \in bookings : b.hotelId = rreqs[r].hotelId /\ b.status = "confirmed"
        /\ reviews = {}

\* C19: whatever add-favorite and remove-favorite requests interleave, the
\* store holds at most one Favorite per (userId, hotelId); an add of a pair
\* the store holds, carried out by the store, is answered 409 and leaves the
\* favorites as they are; an add of a new pair is answered 201 and records
\* the Favorite under the user id verifyToken authenticated.
C19_FavoriteUnique ==
    [][/\ \A f \in favorites', g \in favorites' :
            (f.userId = g.userId /\ f.hotelId = g.hotelId) => f = g
       /\ \A r \in FavIds :
            (freqs[r].pc = "create" /\ freqs'[r].pc = "done" /\ freqs'[r].err # "other")
            => LET u == freqs[r].userId
                   h == freqs[r].hotelId
               IN IF \E f \in favorites : f.userId = u /\ f.hotelId = h
                  THEN freqs'[r].code = 409 /\ favorites' = favorites
                  ELSE /\ freqs'[r].code = 201
                       /\ favorites' = favorites \cup {[id |-> r, userId |-> u, hotelId |-> h]}
      ]_vars

\* two adds of one pair were in flight together: one stored, one refused
C19_Witness ==
    \E r \in FavIds, q \in FavIds :
        /\ freqs[r].kind = "add" /\ freqs[r].code = 201
        /\ freqs[q].kind = "add" /\ freqs[q].code = 409
        /\ freqs[q].userId = freqs[r].userId /\ freqs[q].hotelId = freqs[r].hotelId
        /\ \E f \in favorites : f.id = r /\ f.userId = freqs[r].userId

\* the text contains the word, letter case aside
IsSubstring(word, text) ==
    \E off \in 0 .. Len(text) :
        /\ off + Len(word) <= Len(text)
        /\ \A j \in 1 .. Len(word) : Lower(word[j]) = Lower(text[off + j])

\* a hotel satisfies every filter the request supplies
SatisfiesFilters(k, p) ==
    /\ (p.destination.kind = "string" /\ Trim(p.destination.items[1]) # <<>>)
            => \/ IsSubstring(Trim(p.destination.items[1]), k.city)
               \/ IsSubstring(Trim(p.destination.items[1]), k.country)
    /\ Truthy(p.facilities) => \A f \in AsList(p.facilities) : f \in k.facilities
    /\ Truthy(p.types) => \E t \in AsList(p.types) : t \in k.type
    /\ Truthy(p.stars) => \E x \in AsList(p.stars) : DigitsValue(x) = k.starRating
    /\ Truthy(p.maxPrice) => k.pricePerNight <= DigitsValue(p.maxPrice.items[1])
    /\ Truthy(p.adultCount) => k.adultCount >= DigitsValue(p.adultCount.items[1])
    /\ Truthy(p.childCount) => k.childCount >= DigitsValue(p.childCount.items[1])

\* C20: an answered search has matched exactly the catalogued hotels that
\* satisfy every filter of the request: the destination a case-insensitive
\* substring of city or country, all requested facilities, one of the
\* requested types, one of the requested star ratings, a price of at most
\* maxPrice, capacities of at least the requested counts; the whole catalog
\* without filters.
C20_SearchSelectsExactly ==
    search.pc = "done"
        => search.matched = {k \in search.catalog : SatisfiesFilters(k, search.params)}

\* the page the request asks for is a numeral of at least 1
ValidPage(p) == p.kind = "string" /\ p.items[1] # <<>> /\ LeadingDigits(p.items[1]) = p.items[1]
                    /\ DigitsValue(p.items[1]) >= 1

\* C21: an answered search reports total = T, the number of matching hotels,
\* and pages = ceil(T / 5); a page p of 1 .. pages holds the hotels at the
\* positions 5(p-1)+1 .. min(5p, T) of the sorted matches; without a match
\* the data are empty and total is 0.
C21_PagesOfFive ==
    (search.pc = "done" /\ search.code = 200)
    => LET T == Cardinality(search.matched)
           sorted == Sorted(search.matched, search.sortOptions)
           pages == IF T % 5 = 0 THEN T \div 5 ELSE (T \div 5) + 1
           pg == search.params.page
       IN /\ search.pagination.total = T
          /\ search.pagination.pages = pages
          /\ T = 0 => search.data = <<>>
          /\ (ValidPage(pg) /\ DigitsValue(pg.items[1]) <= pages)
                => LET p == DigitsValue(pg.items[1])
                       upto == IF 5 * p < T THEN 5 * p ELSE T
                   IN /\ search.pagination.page = p
                      /\ search.data = SubSeq(sorted, 5 * (p - 1) + 1, upto)

\* twelve matching hotels, page 3: two items, pages = 3
C21_Witness ==
    /\ search.pc = "done" /\ search.code = 200
    /\ search.pagination = [total |-> 12, page |-> 3, pages |-> 3]
    /\ Len(search.data) = 2
    /\ search.sortOptions = "pricePerNightDesc"
    /\ search.data[1].id = 2 /\ search.data[2].id = 1

\* a numeric filter field that is sent but is no number
InvalidNumber(p) == p.kind = "string" /\ p.items[1] # <<>> /\ LeadingDigits(p.items[1]) = <<>>

\* the request without its invalid numeric filter fields
WithoutInvalid(params) ==
    [params EXCEPT
        !.stars = IF InvalidNumber(@) THEN NoParam ELSE @,
        !.maxPrice = IF InvalidNumber(@) THEN NoParam ELSE @,
        !.adultCount = IF InvalidNumber(@) THEN NoParam ELSE @,
        !.childCount = IF InvalidNumber(@) THEN NoParam ELSE @]

\* C22: a search whose page is absent, empty, not a number, zero or negative
\* is answered as page 1: 200, pagination.page = 1 and the first five of the
\* sorted matches (the filters of the request being valid).
C22_InvalidPageIsPageOne ==
    (/\ search.pc = "done"
     /\ ~ValidPage(search.params.page)
     /\ WithoutInvalid(search.params) = search.params)
    => /\ search.code = 200
       /\ search.pagination.page = 1
       /\ search.data = Limit(Sorted(search.matched, search.sortOptions), 5)

\* C23: an invalid numeric filter field (stars, maxPrice, adultCount,
\* childCount) is left out of the predicate: a search with a valid page is
\* answered 200 and has matched the hotels the same request without its
\* invalid fields matches.
C23_InvalidFilterOmitted ==
    (search.pc = "done" /\ (ValidPage(search.params.page) \/ ~Truthy(search.params.page)))
    => /\ search.code = 200
       /\ search.matched =
            {k \in search.catalog :
                Matches(k, constructSearchQuery(WithoutInvalid(search.params)))}

\* C24: whatever registrations interleave, the store holds at most one User
\* per email, and a valid registration of an email that is in use when it is
\* answered is answered 409, stores no User and sets no cookie.
C24_EmailUnique ==
    [][/\ \A a \in accounts', b \in accounts' : a.email = b.email => a = b
       /\ \A r \in RegIds :
            (/\ regs[r].pc \in {"findOne", "save"}
             /\ regs'[r].pc = "done"
             /\ \E a \in accounts : a.email = regs[r].email)
            => /\ regs'[r].code = 409
               /\ accounts' = accounts
               /\ regs'[r].cookies = {}
      ]_vars

\* C25: every Booking the confirmation stores has status "confirmed",
\* paymentStatus "paid", the userId verifyToken authenticated and the hotelId
\* of the path, both equal to the payment intent's metadata, whatever the
\* body carries in those fields.
C25_BookingFieldsFromServer ==
    [][\A b \in bookings' \ bookings :
            /\ b.status = "confirmed" /\ b.paymentStatus = "paid"
            /\ \E r \in ReqIds :
                /\ reqs[r].kind = "confirm" /\ reqs[r].pc = "save" /\ reqs'[r].pc # "save"
                /\ b.userId = reqs[r].userId /\ b.hotelId = reqs[r].hotelId
                /\ paymentIntents[reqs[r].paymentIntentId].userId = b.userId
                /\ paymentIntents[reqs[r].paymentIntentId].hotelId = b.hotelId
      ]_vars

\* a stored Booking whose request body named another user, another hotel,
\* and statuses of its own
C25_Witness ==
    \E r \in ReqIds, b \in bookings :
        /\ reqs[r].pc = "incHotel" /\ reqs[r].booking = b
        /\ reqs[r].extra.userId \notin {"", b.userId}
        /\ reqs[r].extra.hotelId \notin {"", b.hotelId}
        /\ reqs[r].extra.status = "cancelled" /\ reqs[r].extra.paymentStatus = "refunded"
        /\ b.status = "confirmed" /\ b.paymentStatus = "paid"

\* C26: each payment intent yields at most one Booking, so the Bookings ever
\* stored are never more than the payment intents that have succeeded.
C26_OneBookingPerIntent ==
    nextBookingId - 1 <= Cardinality({i \in IntentIds : paymentIntents[i].status = "succeeded"})

\* the user holds a Booking of the hotel as the confirmation stores it
HasConfirmedBooking(u, h) ==
    \E b \in bookings : /\ b.userId = u /\ b.hotelId = h
                        /\ b.status = "confirmed" /\ b.paymentStatus = "paid"

\* C27: a create-review request of a user who holds a confirmed, paid Booking
\* of the hotel and has not reviewed it is not turned away: when the booking
\* lookup returns, the request goes on to the review, and it is answered with
\* nothing but 201.
C27_GuestCanReview ==
    [][\A r \in RevIds :
            (/\ rreqs[r].pc = "findBooking" /\ rreqs'[r] # rreqs[r]
             /\ HasConfirmedBooking(rreqs[r].userId, rreqs[r].hotelId)
             /\ ExistingReviews(rreqs[r].userId, rreqs[r].hotelId) = {})
            => /\ rreqs'[r].pc # "done" \/ rreqs'[r].code = 201
               /\ rreqs'[r].code # 403
      ]_vars

\* a delete request that has deleted its Booking and is updating the counters
Deleting(q) == q.kind = "delete" /\ q.pc \in {"decHotel", "decUser"}

\* C29: whatever admin deletions interleave, a Booking is deleted by one
\* request only, and only that request decrements the counters: the hotel's
\* and the user's once each, by 1 and by that Booking's totalCost; a request
\* that finds no Booking is answered 404 and changes no counter.
C29_OneDeletionPerBooking ==
    [][/\ \A r \in ReqIds, s \in ReqIds :
            (r # s /\ Deleting(reqs'[r]) /\ Deleting(reqs'[s]))
            => reqs'[r].booking.id # reqs'[s].booking.id
       /\ \A r \in ReqIds :
            (reqs[r].pc = "idle" /\ reqs'[r].kind = "delete")
            => IF reqs'[r].pc = "done"
               THEN /\ reqs'[r].code = 404
                    /\ bookings' = bookings
                    /\ hotelStats' = hotelStats /\ userStats' = userStats
               ELSE /\ reqs'[r].booking \in bookings
                    /\ bookings' = bookings \ {reqs'[r].booking}
                    /\ hotelStats' = hotelStats /\ userStats' = userStats
       /\ hotelStats' # hotelStats
            => \E r \in ReqIds :
                LET b == reqs[r].booking
                IN /\ Deleting(reqs[r]) /\ reqs[r].pc = "decHotel" /\ reqs'[r].pc = "decUser"
                   /\ b \notin bookings
                   /\ hotelStats' = [hotelStats EXCEPT
                        ![b.hotelId] = [totalBookings |-> @.totalBookings - 1,
                                        totalRevenue |-> @.totalRevenue - b.totalCost]]
       /\ userStats' # userStats
            => \E r \in ReqIds :
                LET b == reqs[r].booking
                IN /\ Deleting(reqs[r]) /\ reqs[r].pc = "decUser" /\ reqs'[r].pc = "done"
                   /\ b \notin bookings
                   /\ userStats' = [userStats EXCEPT
                        ![b.userId] = [totalBookings |-> @.totalBookings - 1,
                                       totalSpent |-> @.totalSpent - b.totalCost]]
      ]_vars

\* one request has deleted the only Booking and decremented the counters to
\* zero, the other has been answered 404
C29_Witness ==
    /\ bookings = {}
    /\ \E r \in ReqIds, s \in ReqIds :
        /\ reqs[r].kind = "delete" /\ reqs[r].code = 200
        /\ reqs[s].kind = "delete" /\ reqs[s].code = 404
    /\ \A h \in HotelIds : hotelStats[h] = [totalBookings |-> 0, totalRevenue |-> 0]
    /\ \A u \in UserIds : userStats[u] = [totalBookings |-> 0, totalSpent |-> 0]

\* C30: a route guarded with a roles list shows its children only to a user
\* whose profile is loaded and whose role is in the list.
C30_GuardNeedsListedRole ==
    (app.shown = "children" /\ RouteRoles(app.path) # {})
        => app.user # NoRole /\ app.user \in RouteRoles(app.path)

====
